---- MODULE Spec2Model ----
(***************************************************************************)
(* A model of the algorithmic examples of the rust-brown-book repository:  *)
(*   - chapter-12/minigrep: search, search_case_insensitive, search_v2,    *)
(*     Config::build, run and main;                                        *)
(*   - chapter-8/challenges: challenge_1 (median and mode), challenge_2    *)
(*     (pig latin) and challenge_3 (the company's departments);            *)
(*   - chapter-9: Guess; chapter-14/art_lib_with_reexport: mix;            *)
(*   - chapter-15: LimitTracker and the tree of tree.rs;                   *)
(*   - chapter-16: share_mutex_between_multiple_threads,                   *)
(*     saving_join_handles, using_threads, the ownership quiz and          *)
(*     cloning_producer_for_multiple_producers;                            *)
(*   - chapter-17/concurrency_with_async: timeout, version_3,              *)
(*     message_passing_3 and message_passing_4.                            *)
(* Strings are sequences of one-character strings.  Each example has its   *)
(* own specification (SpecSearch, SpecMain, ...); the variables of the     *)
(* other examples stay at their idle values.                               *)
(***************************************************************************)
EXTENDS Integers, Sequences, FiniteSets, TLC

VARIABLES
    \* minigrep's library functions, applied to one input
    query,          \* the query argument
    contents,       \* the contents argument
    results,        \* the returned Vec<&str>
    search_fn,      \* which function produced results ("none" before the call)
    \* the minigrep process
    args,           \* std::env::args(), a sequence of strings
    env_ignore_case,\* the state of the IGNORE_CASE environment variable
    fs,             \* what fs::read_to_string finds at each path
    pc,             \* the position of main
    config,         \* the Config built by Config::build
    build_result,   \* what Config::build returned
    run_result,     \* what run returned
    run_calls,      \* how many times run was called
    run_lines,      \* run's local `results` still to be printed
    stdout,         \* the lines printed so far
    exit_status,    \* the process's exit status (-1 while it runs)
    \* chapter 8, challenge_1
    vec,            \* the argument of challenge_1
    overflow_checks,\* whether the build checks integer overflow (debug) or wraps
    c1_pc,          \* "call", then "returned" or "panicked"
    c1_result,      \* the Challenge1Result returned
    \* chapter 8, challenge_2
    words,          \* the argument of challenge_2
    c2_pc,          \* "call", then "returned" or "panicked"
    c2_result,      \* the String returned
    \* chapter 8, challenge_3
    departments,    \* Company.departments: the entry of each Department
    c3_log,         \* the Add commands executed so far, in order
    c3_pc,          \* "ready", or "panicked" once a command panicked
    retrieved,      \* what the last retrieve_employees returned
    \* chapters 9 and 11, Guess
    guesses,        \* the Guess values that exist, in the order of creation
    guess_arg,      \* the argument of the last Guess::new ([some, value])
    guess_pc,       \* "ready", or "panicked" once Guess::new panicked
    guess_value,    \* what the last value() returned ([some, value])
    \* chapter 14, art_lib_with_reexport
    mixes,          \* the calls of mix so far: [c1, c2, result]
    \* chapter 17, timeout
    timeout_in,     \* the call: [future_time, output, max_time]
    clock,          \* the time since the call, in timer ticks
    sleeps,         \* the deadlines of the two sleeps: [future_due, timer_due]
    timeout_pc,     \* "call", "pending", "woken", "returned"
    timeout_result, \* the Result returned: [ok, output, duration]
    \* chapter 16, sharing_data_across_threads
    counter,        \* the i32 in the Mutex
    mutex_holder,   \* the spawned thread that holds the lock (0: none)
    thread_pc,      \* the position of each spawned thread
    thread_num,     \* each thread's register in `*num += 1`
    share_pc,       \* the position of the main thread
    share_i,        \* main's loop counter (threads spawned, then joined)
    share_result,   \* the number printed as "Result" (-1 before)
    \* chapter 16, join_handles::main
    jh_pc,          \* main: "spawn", "loop", "join", "returned"
    jh_i,           \* main's loop variable i
    jh_thread_pc,   \* the spawned thread: "unspawned", "loop", "finished"
    jh_thread_i,    \* the spawned thread's loop variable i
    jh_stdout,      \* the messages printed: <<thread, i>>
    \* chapter 16, using_threads_to_run_code_simultaneously::main
    ut_pc,          \* main: "spawn", "loop", "returned", "exited"
    ut_i,           \* main's loop variable i
    ut_thread_pc,   \* the spawned thread: "unspawned", "loop", "finished"
    ut_thread_i,    \* the spawned thread's loop variable i
    \* chapter 16, quiz: question_1 and question_2, run by the test harness
    q1_pc,          \* question_1's main thread
    q1_t_pc,        \* the thread t
    q1_inner_pc,    \* the thread spawned by t
    q1_n,           \* the variable n of each thread (a closure's is its copy)
    q2_pc,          \* question_2's main thread
    q2_sent,        \* how many client messages were sent
    q2_requests,    \* the channel client_tx -> server_rx
    q2_replies,     \* the channel server_tx -> client_rx
    q2_server_pc,   \* the server thread
    q2_server_n,    \* the server's n
    q2_got,         \* the n received by the client
    quiz_stdout,    \* the lines printed by the two tests
    \* chapter 17, message_passing_3
    mp_moved,       \* whether the futures are `async move` blocks
    mp_clock,       \* the time since the call, in milliseconds
    mp_pc,          \* the task: "ready" (to be polled), "pending", "done"
    tx_pc,          \* tx_fut: "start", "sleeping", "done"
    tx_idx,         \* tx_fut: the index in vals of the loop's val
    tx_due,         \* tx_fut: the deadline of its sleep
    mp_senders,     \* how many senders of the channel exist
    mp_channel,     \* the messages sent and not yet received
    rx_pc,          \* rx_fut: "recv" or "done"
    rx_waiting,     \* whether rx.recv() has left its waker with the channel
    mp_received,    \* the values printed by rx_fut
    \* chapter 15, LimitTracker
    lt_pc,          \* "new" after LimitTracker::new, "set" after set_value
    lt_max,         \* LimitTracker.max (a usize, as bits)
    lt_value,       \* LimitTracker.value (a usize, as bits)
    sent_messages,  \* MockMessenger.sent_messages
    \* chapter 17, version_3
    v3_clock,       \* the time since the call, in milliseconds
    v3_pc,          \* the task: "ready" (to be polled), "pending", "done"
    fut_pc,         \* fut1 and fut2: "start", "sleeping", "done"
    fut_i,          \* fut1 and fut2: the loop's i
    fut_due,        \* fut1 and fut2: the deadline of the sleep
    v3_stdout,      \* the lines printed
    \* chapter 15, tree.rs
    heap,           \* the Rc allocations, by address
    leaf,           \* the address held by `leaf` (0: not in scope)
    branch,         \* the address held by `branch` (0: not in scope)
    tree_pc,        \* the position of main
    tree_stdout,    \* the lines printed
    \* chapter 16, cloning_producer_for_multiple_producers
    cl_pc,          \* the main thread: "channel", "cloned", "spawned1", "recv", "returned"
    producer_pc,    \* each spawned thread: "unspawned", "send", "sleep", "finished"
    producer_idx,   \* each spawned thread: the index in vals of the loop's val
    cl_senders,     \* how many Senders of the channel exist
    cl_channel,     \* the messages sent and not yet received
    cl_received     \* the values printed by the main thread

searchVars == <<query, contents, results, search_fn>>
mainVars == <<args, env_ignore_case, fs, pc, config, build_result, run_result,
              run_calls, run_lines, stdout, exit_status>>
c1Vars == <<vec, overflow_checks, c1_pc, c1_result>>
c2Vars == <<words, c2_pc, c2_result>>
c3Vars == <<departments, c3_log, c3_pc, retrieved>>
guessVars == <<guesses, guess_arg, guess_pc, guess_value>>
mixVars == <<mixes>>
timeoutVars == <<timeout_in, clock, sleeps, timeout_pc, timeout_result>>
shareVars == <<counter, mutex_holder, thread_pc, thread_num, share_pc, share_i,
               share_result>>
joinVars == <<jh_pc, jh_i, jh_thread_pc, jh_thread_i, jh_stdout>>
usingVars == <<ut_pc, ut_i, ut_thread_pc, ut_thread_i>>
quizVars == <<q1_pc, q1_t_pc, q1_inner_pc, q1_n, q2_pc, q2_sent, q2_requests,
              q2_replies, q2_server_pc, q2_server_n, q2_got, quiz_stdout>>
mpVars == <<mp_moved, mp_clock, mp_pc, tx_pc, tx_idx, tx_due, mp_senders,
            mp_channel, rx_pc, rx_waiting, mp_received>>
trackerVars == <<lt_pc, lt_max, lt_value, sent_messages>>
v3Vars == <<v3_clock, v3_pc, fut_pc, fut_i, fut_due, v3_stdout>>
treeVars == <<heap, leaf, branch, tree_pc, tree_stdout>>
cloneVars == <<cl_pc, producer_pc, producer_idx, cl_senders, cl_channel,
               cl_received>>
vars == <<searchVars, mainVars, c1Vars, c2Vars, c3Vars, guessVars, mixVars,
          timeoutVars, shareVars, joinVars, usingVars, quizVars, mpVars,
          trackerVars, v3Vars, treeVars, cloneVars>>

\* What the actions of one example leave alone.
notSearchVars == <<mainVars, c1Vars, c2Vars, c3Vars, guessVars, mixVars,
                   timeoutVars, shareVars, joinVars, usingVars, quizVars,
                   mpVars, trackerVars, v3Vars, treeVars, cloneVars>>
notMainVars == <<searchVars, c1Vars, c2Vars, c3Vars, guessVars, mixVars,
                 timeoutVars, shareVars, joinVars, usingVars, quizVars,
                 mpVars, trackerVars, v3Vars, treeVars, cloneVars>>
notC1Vars == <<searchVars, mainVars, c2Vars, c3Vars, guessVars, mixVars,
               timeoutVars, shareVars, joinVars, usingVars, quizVars, mpVars,
               trackerVars, v3Vars, treeVars, cloneVars>>
notC2Vars == <<searchVars, mainVars, c1Vars, c3Vars, guessVars, mixVars,
               timeoutVars, shareVars, joinVars, usingVars, quizVars, mpVars,
               trackerVars, v3Vars, treeVars, cloneVars>>
notC3Vars == <<searchVars, mainVars, c1Vars, c2Vars, guessVars, mixVars,
               timeoutVars, shareVars, joinVars, usingVars, quizVars, mpVars,
               trackerVars, v3Vars, treeVars, cloneVars>>
notGuessVars == <<searchVars, mainVars, c1Vars, c2Vars, c3Vars, mixVars,
                  timeoutVars, shareVars, joinVars, usingVars, quizVars,
                  mpVars, trackerVars, v3Vars, treeVars, cloneVars>>
notMixVars == <<searchVars, mainVars, c1Vars, c2Vars, c3Vars, guessVars,
                timeoutVars, shareVars, joinVars, usingVars, quizVars,
                mpVars, trackerVars, v3Vars, treeVars, cloneVars>>
notTimeoutVars == <<searchVars, mainVars, c1Vars, c2Vars, c3Vars, guessVars,
                    mixVars, shareVars, joinVars, usingVars, quizVars,
                    mpVars, trackerVars, v3Vars, treeVars, cloneVars>>
notShareVars == <<searchVars, mainVars, c1Vars, c2Vars, c3Vars, guessVars,
                  mixVars, timeoutVars, joinVars, usingVars, quizVars,
                  mpVars, trackerVars, v3Vars, treeVars, cloneVars>>
notJoinVars == <<searchVars, mainVars, c1Vars, c2Vars, c3Vars, guessVars,
                 mixVars, timeoutVars, shareVars, usingVars, quizVars,
                 mpVars, trackerVars, v3Vars, treeVars, cloneVars>>
notUsingVars == <<searchVars, mainVars, c1Vars, c2Vars, c3Vars, guessVars,
                  mixVars, timeoutVars, shareVars, joinVars, quizVars,
                  mpVars, trackerVars, v3Vars, treeVars, cloneVars>>
notQuizVars == <<searchVars, mainVars, c1Vars, c2Vars, c3Vars, guessVars,
                 mixVars, timeoutVars, shareVars, joinVars, usingVars,
                 mpVars, trackerVars, v3Vars, treeVars, cloneVars>>
notMpVars == <<searchVars, mainVars, c1Vars, c2Vars, c3Vars, guessVars,
               mixVars, timeoutVars, shareVars, joinVars, usingVars,
               quizVars, trackerVars, v3Vars, treeVars, cloneVars>>
notTrackerVars == <<searchVars, mainVars, c1Vars, c2Vars, c3Vars, guessVars,
                    mixVars, timeoutVars, shareVars, joinVars, usingVars,
                    quizVars, mpVars, v3Vars, treeVars, cloneVars>>
notV3Vars == <<searchVars, mainVars, c1Vars, c2Vars, c3Vars, guessVars,
               mixVars, timeoutVars, shareVars, joinVars, usingVars,
               quizVars, mpVars, trackerVars, treeVars, cloneVars>>
notTreeVars == <<searchVars, mainVars, c1Vars, c2Vars, c3Vars, guessVars,
                 mixVars, timeoutVars, shareVars, joinVars, usingVars,
                 quizVars, mpVars, trackerVars, v3Vars, cloneVars>>
notCloneVars == <<searchVars, mainVars, c1Vars, c2Vars, c3Vars, guessVars,
                  mixVars, timeoutVars, shareVars, joinVars, usingVars,
                  quizVars, mpVars, trackerVars, v3Vars, treeVars>>

(***************************************************************************)
(* Bounds of the model.                                                    *)
(***************************************************************************)
MaxContents == 4
MaxQuery == 2

\* The characters the inputs are drawn from: two letters in both cases, the
\* line feed and the carriage return.
Chars == {"a", "A", "b", "\n", "\r"}

\* All strings over S of length at most n.
StringsUpTo(S, n) == UNION {[1..k -> S] : k \in 0..n}

(***************************************************************************)
(* The standard library's string operations, as far as minigrep uses them. *)
(***************************************************************************)

\* char::to_lowercase on the letters of the model (other characters map to
\* themselves).
ToLowerChar(c) ==
    CASE c = "A" -> "a"
      [] c = "B" -> "b"
      [] c = "D" -> "d"
      [] c = "R" -> "r"
      [] c = "T" -> "t"
      [] OTHER -> c

\* str::to_lowercase: a new String, every character lowercased.
ToLowercase(s) == [i \in 1..Len(s) |-> ToLowerChar(s[i])]

\* str::contains(&str): the needle occurs at some offset of the haystack.
Contains(hay, needle) ==
    \E off \in 0..(Len(hay) - Len(needle)) :
        SubSeq(hay, off + 1, off + Len(needle)) = needle

\* The position of the first line feed of s, 0 when it has none.
FirstLineFeed(s) ==
    IF \E i \in 1..Len(s) : s[i] = "\n"
    THEN CHOOSE i \in 1..Len(s) :
            s[i] = "\n" /\ \A j \in 1..(i - 1) : s[j] # "\n"
    ELSE 0

\* str::split_inclusive('\n'): the pieces end with their line feed; the empty
\* string has no piece and a final line feed starts no empty piece.
RECURSIVE SplitInclusive(_)
SplitInclusive(s) ==
    IF s = <<>> THEN <<>>
    ELSE LET i == FirstLineFeed(s) IN
         IF i = 0 THEN <<s>>
         ELSE <<SubSeq(s, 1, i)>> \o SplitInclusive(SubSeq(s, i + 1, Len(s)))

\* What str::lines does to one piece: it strips the final "\n" and then, only
\* if there was one, a final "\r".
StripLineEnding(piece) ==
    IF piece # <<>> /\ piece[Len(piece)] = "\n"
    THEN LET l == SubSeq(piece, 1, Len(piece) - 1) IN
         IF l # <<>> /\ l[Len(l)] = "\r" THEN SubSeq(l, 1, Len(l) - 1) ELSE l
    ELSE piece

\* str::lines, collected.
Lines(s) ==
    LET pieces == SplitInclusive(s) IN
    [i \in 1..Len(pieces) |-> StripLineEnding(pieces[i])]

(***************************************************************************)
(* minigrep/src/lib.rs: the three search functions.                        *)
(***************************************************************************)

\* The loop of search: the lines from index i on, pushed onto acc when they
\* contain the query.
RECURSIVE SearchLoop(_, _, _, _)
SearchLoop(q, lines, i, acc) ==
    IF i > Len(lines) THEN acc
    ELSE SearchLoop(q, lines, i + 1,
                    IF Contains(lines[i], q) THEN Append(acc, lines[i]) ELSE acc)

\* The loop of search_case_insensitive: q is the lowercased query; the line is
\* lowercased for the test and pushed as it is.
RECURSIVE SearchCaseInsensitiveLoop(_, _, _, _)
SearchCaseInsensitiveLoop(q, lines, i, acc) ==
    IF i > Len(lines) THEN acc
    ELSE SearchCaseInsensitiveLoop(q, lines, i + 1,
            IF Contains(ToLowercase(lines[i]), q)
            THEN Append(acc, lines[i]) ELSE acc)

\* A search that lowercases both sides before the test.
search_lowercasing(q, c) ==
    SearchCaseInsensitiveLoop(ToLowercase(q), Lines(c), 1, <<>>)

search(q, c) == SearchLoop(q, Lines(c), 1, <<>>)

\* A search_v2 that keeps the first matching line only.
search_v2_first(q, c) ==
    LET found == SearchLoop(q, Lines(c), 1, <<>>)
    IN  IF found = <<>> THEN <<>> ELSE <<found[1]>>

\* search_v2: lines().filter(|line| line.contains(query)).collect()
search_v2(q, c) == SelectSeq(Lines(c), LAMBDA line : Contains(line, q))

\* A case-insensitive search that returns the lowercased copies of the lines.
search_case_insensitive_copies(q, c) ==
    SearchLoop(ToLowercase(q), Lines(ToLowercase(c)), 1, <<>>)

search_case_insensitive(q, c) ==
    SearchCaseInsensitiveLoop(ToLowercase(q), Lines(c), 1, <<>>)

(***************************************************************************)
(* The specification of the search functions: one input, one call.         *)
(***************************************************************************)
SearchIdle ==
    /\ query = <<>>
    /\ contents = <<>>
    /\ results = <<>>
    /\ search_fn = "none"

MainIdle ==
    /\ args = <<>>
    /\ env_ignore_case = [set |-> FALSE, unicode |-> TRUE, value |-> <<>>]
    /\ fs = <<>>
    /\ pc = "idle"
    /\ config = [query |-> <<>>, file_path |-> <<>>, ignore_case |-> FALSE]
    /\ build_result = [state |-> "none"]
    /\ run_result = [state |-> "none"]
    /\ run_calls = 0
    /\ run_lines = <<>>
    /\ stdout = <<>>
    /\ exit_status = -1

C1Idle ==
    /\ vec = <<>>
    /\ overflow_checks = FALSE
    /\ c1_pc = "idle"
    /\ c1_result = [median |-> [mant |-> 0, exp |-> 0],
                     mode |-> [some |-> FALSE, value |-> 0]]

C2Idle ==
    /\ words = <<>>
    /\ c2_pc = "idle"
    /\ c2_result = <<>>

C3Idle ==
    /\ departments = <<>>
    /\ c3_log = <<>>
    /\ c3_pc = "idle"
    /\ retrieved = [state |-> "none", department |-> "", employees |-> <<>>]

GuessIdle ==
    /\ guesses = <<>>
    /\ guess_arg = [some |-> FALSE, value |-> 0]
    /\ guess_pc = "idle"
    /\ guess_value = [some |-> FALSE, value |-> 0]

MixIdle == mixes = <<>>

TimeoutIdle ==
    /\ timeout_in = [future_time |-> 0, output |-> "", max_time |-> 0]
    /\ clock = 0
    /\ sleeps = [future_due |-> 0, timer_due |-> 0]
    /\ timeout_pc = "idle"
    /\ timeout_result = [ok |-> FALSE, output |-> "", duration |-> 0]

ShareIdle ==
    /\ counter = 0
    /\ mutex_holder = 0
    /\ thread_pc = <<>>
    /\ thread_num = <<>>
    /\ share_pc = "idle"
    /\ share_i = 0
    /\ share_result = -1

JoinIdle ==
    /\ jh_pc = "idle"
    /\ jh_i = 0
    /\ jh_thread_pc = "idle"
    /\ jh_thread_i = 0
    /\ jh_stdout = <<>>

UsingIdle ==
    /\ ut_pc = "idle"
    /\ ut_i = 0
    /\ ut_thread_pc = "idle"
    /\ ut_thread_i = 0

QuizIdle ==
    /\ q1_pc = "idle"
    /\ q1_t_pc = "idle"
    /\ q1_inner_pc = "idle"
    /\ q1_n = <<>>
    /\ q2_pc = "idle"
    /\ q2_sent = 0
    /\ q2_requests = <<>>
    /\ q2_replies = <<>>
    /\ q2_server_pc = "idle"
    /\ q2_server_n = 0
    /\ q2_got = 0
    /\ quiz_stdout = <<>>

MpIdle ==
    /\ mp_moved = FALSE
    /\ mp_clock = 0
    /\ mp_pc = "idle"
    /\ tx_pc = "idle"
    /\ tx_idx = 0
    /\ tx_due = 0
    /\ mp_senders = 0
    /\ mp_channel = <<>>
    /\ rx_pc = "idle"
    /\ rx_waiting = FALSE
    /\ mp_received = <<>>

TrackerIdle ==
    /\ lt_pc = "idle"
    /\ lt_max = <<>>
    /\ lt_value = <<>>
    /\ sent_messages = <<>>

V3Idle ==
    /\ v3_clock = 0
    /\ v3_pc = "idle"
    /\ fut_pc = <<>>
    /\ fut_i = <<>>
    /\ fut_due = <<>>
    /\ v3_stdout = <<>>

TreeIdle ==
    /\ heap = <<>>
    /\ leaf = 0
    /\ branch = 0
    /\ tree_pc = "idle"
    /\ tree_stdout = <<>>

CloneIdle ==
    /\ cl_pc = "idle"
    /\ producer_pc = <<>>
    /\ producer_idx = <<>>
    /\ cl_senders = 0
    /\ cl_channel = <<>>
    /\ cl_received = <<>>

InitSearch ==
    /\ query \in StringsUpTo(Chars, MaxQuery)
    /\ contents \in StringsUpTo(Chars, MaxContents)
    /\ results = <<>>
    /\ search_fn = "none"
    /\ MainIdle /\ C1Idle /\ C2Idle /\ C3Idle /\ GuessIdle /\ MixIdle /\ TimeoutIdle /\ ShareIdle /\ JoinIdle /\ UsingIdle /\ QuizIdle /\ MpIdle /\ TrackerIdle /\ V3Idle /\ TreeIdle /\ CloneIdle

CallSearch ==
    /\ search_fn = "none"
    /\ results' = search(query, contents)
    /\ search_fn' = "search"
    /\ UNCHANGED <<query, contents, notSearchVars>>

CallSearchV2 ==
    /\ search_fn = "none"
    /\ results' = search_v2(query, contents)
    /\ search_fn' = "search_v2"
    /\ UNCHANGED <<query, contents, notSearchVars>>

CallSearchCaseInsensitive ==
    /\ search_fn = "none"
    /\ results' = search_case_insensitive(query, contents)
    /\ search_fn' = "search_case_insensitive"
    /\ UNCHANGED <<query, contents, notSearchVars>>

NextSearch == CallSearch \/ CallSearchV2 \/ CallSearchCaseInsensitive

SpecSearch == InitSearch /\ [][NextSearch]_vars

(***************************************************************************)
(* minigrep/src/lib.rs and main.rs: Config::build, run and main.           *)
(* The environment of the process: its arguments, the IGNORE_CASE          *)
(* variable and the files.  Writes to the standard output succeed; the     *)
(* debugging output of dbg! goes to the standard error and is left out.    *)
(***************************************************************************)
MaxArgs == 4

\* The strings an argument can be: two queries and a file name.
ArgPool == {<<"a">>, <<"B">>, <<"f">>}

\* IGNORE_CASE is unset, or set to a value that is valid Unicode ("" or "0"),
\* or set to bytes that are not valid Unicode.
EnvStates ==
    {[set |-> FALSE, unicode |-> TRUE, value |-> <<>>],
     [set |-> TRUE, unicode |-> TRUE, value |-> <<>>],
     [set |-> TRUE, unicode |-> TRUE, value |-> <<"0">>],
     [set |-> TRUE, unicode |-> FALSE, value |-> <<>>]}

\* The text of a readable file: the lines "aB", "b" (ended by "\r\n") and "A".
FileText == <<"a", "B", "\n", "b", "\r", "\n", "A", "\n">>

\* A path names a text file, nothing, or a file that is not valid UTF-8.
FileStates ==
    {[kind |-> "text", data |-> FileText],
     [kind |-> "missing", data |-> <<>>],
     [kind |-> "not_utf8", data |-> <<>>]}

\* std::env::var: Ok(value) when the variable is set to valid Unicode,
\* Err(NotPresent) when it is unset, Err(NotUnicode) otherwise.
EnvVar(e) ==
    IF ~e.set THEN [ok |-> FALSE, err |-> "NotPresent", value |-> <<>>]
    ELSE IF ~e.unicode THEN [ok |-> FALSE, err |-> "NotUnicode", value |-> <<>>]
    ELSE [ok |-> TRUE, err |-> "", value |-> e.value]

\* fs::read_to_string: the text of the file, or the error of the system.
ReadToString(files, path) ==
    IF path \notin DOMAIN files \/ files[path].kind = "missing"
    THEN [ok |-> FALSE, err |-> "No such file or directory (os error 2)",
          data |-> <<>>]
    ELSE IF files[path].kind = "not_utf8"
    THEN [ok |-> FALSE, err |-> "stream did not contain valid UTF-8",
          data |-> <<>>]
    ELSE [ok |-> TRUE, err |-> "", data |-> files[path].data]

\* Iterator::next on the arguments: the item, if any, and the iterator after it.
IterNext(it) ==
    IF it = <<>> THEN [some |-> FALSE, item |-> <<>>, rest |-> <<>>]
    ELSE [some |-> TRUE, item |-> Head(it), rest |-> Tail(it)]

NoConfig == [query |-> <<>>, file_path |-> <<>>, ignore_case |-> FALSE]

\* A Config::build that takes the query from the first argument.
ConfigBuildNoSkip(a, e) ==
    LET n1 == IterNext(a)
        n2 == IterNext(n1.rest)
    IN  IF ~n1.some
        THEN [state |-> "err", err |-> "Didn't get a query string",
              config |-> NoConfig]
        ELSE IF ~n2.some
        THEN [state |-> "err", err |-> "Didn't get a file path",
              config |-> NoConfig]
        ELSE [state |-> "ok", err |-> "",
              config |-> [query |-> n1.item, file_path |-> n2.item,
                          ignore_case |-> EnvVar(e).ok]]

\* Config::build: skip the program name, take the query and the file path,
\* read IGNORE_CASE.
ConfigBuild(a, e) ==
    LET n0 == IterNext(a)
        n1 == IterNext(n0.rest)
        n2 == IterNext(n1.rest)
    IN  IF ~n1.some
        THEN [state |-> "err", err |-> "Didn't get a query string",
              config |-> NoConfig]
        ELSE IF ~n2.some
        THEN [state |-> "err", err |-> "Didn't get a file path",
              config |-> NoConfig]
        ELSE [state |-> "ok", err |-> "",
              config |-> [query |-> n1.item, file_path |-> n2.item,
                          ignore_case |-> EnvVar(e).ok]]

\* The lines run prints for a Config and the text of its file.
RunResults(cfg, text) ==
    IF cfg.ignore_case
    THEN search_case_insensitive(cfg.query, text)
    ELSE search(cfg.query, text)

InitMain ==
    /\ args \in StringsUpTo(ArgPool, MaxArgs)
    /\ env_ignore_case \in EnvStates
    /\ fs \in [ArgPool -> FileStates]
    /\ pc = "main"
    /\ config = NoConfig
    /\ build_result = [state |-> "none", err |-> "", config |-> NoConfig]
    /\ run_result = [state |-> "none", err |-> ""]
    /\ run_calls = 0
    /\ run_lines = <<>>
    /\ stdout = <<>>
    /\ exit_status = -1
    /\ SearchIdle /\ C1Idle /\ C2Idle /\ C3Idle /\ GuessIdle /\ MixIdle /\ TimeoutIdle /\ ShareIdle /\ JoinIdle /\ UsingIdle /\ QuizIdle /\ MpIdle /\ TrackerIdle /\ V3Idle /\ TreeIdle /\ CloneIdle

\* main: Config::build succeeds; the two lines about the search are printed.
MainBuildOk ==
    /\ pc = "main"
    /\ LET r == ConfigBuild(args, env_ignore_case) IN
        /\ r.state = "ok"
        /\ build_result' = r
        /\ config' = r.config
        /\ stdout' = stdout \o << <<"Searching for ">> \o r.config.query,
                                  <<"In file ">> \o r.config.file_path >>
    /\ pc' = "call_run"
    /\ UNCHANGED <<args, env_ignore_case, fs, run_result, run_calls, run_lines,
                   exit_status, notMainVars>>

\* main: Config::build fails; the closure of unwrap_or_else prints the
\* problem and exits with status 1.
MainBuildErr ==
    /\ pc = "main"
    /\ LET r == ConfigBuild(args, env_ignore_case) IN
        /\ r.state = "err"
        /\ build_result' = r
        /\ stdout' = Append(stdout, <<"Problem parsing arguments: ", r.err>>)
    /\ exit_status' = 1
    /\ pc' = "exited"
    /\ UNCHANGED <<args, env_ignore_case, fs, config, run_result, run_calls,
                   run_lines, notMainVars>>

\* run: the file is read and searched; `results` holds the matching lines.
RunSearch ==
    /\ pc = "call_run"
    /\ LET r == ReadToString(fs, config.file_path) IN
        /\ r.ok
        /\ run_lines' = RunResults(config, r.data)
    /\ run_calls' = run_calls + 1
    /\ pc' = "run_print"
    /\ UNCHANGED <<args, env_ignore_case, fs, config, build_result, run_result,
                   stdout, exit_status, notMainVars>>

\* run: fs::read_to_string fails and the ? operator returns the error.
RunReadErr ==
    /\ pc = "call_run"
    /\ LET r == ReadToString(fs, config.file_path) IN
        /\ ~r.ok
        /\ run_result' = [state |-> "err", err |-> r.err]
    /\ run_calls' = run_calls + 1
    /\ pc' = "run_returned"
    /\ UNCHANGED <<args, env_ignore_case, fs, config, build_result, run_lines,
                   stdout, exit_status, notMainVars>>

\* run: one turn of `for line in results`.
RunPrintLine ==
    /\ pc = "run_print"
    /\ run_lines # <<>>
    /\ stdout' = Append(stdout, Head(run_lines))
    /\ run_lines' = Tail(run_lines)
    /\ UNCHANGED <<args, env_ignore_case, fs, pc, config, build_result,
                   run_result, run_calls, exit_status, notMainVars>>

\* run: the loop is over, run returns Ok(()).
RunReturnOk ==
    /\ pc = "run_print"
    /\ run_lines = <<>>
    /\ run_result' = [state |-> "ok", err |-> ""]
    /\ pc' = "run_returned"
    /\ UNCHANGED <<args, env_ignore_case, fs, config, build_result, run_calls,
                   run_lines, stdout, exit_status, notMainVars>>

\* A main that prints the error of run and then returns.
MainRunErrNoExit ==
    /\ pc = "run_returned"
    /\ run_result.state = "err"
    /\ stdout' = Append(stdout, <<"Application error: ", run_result.err>>)
    /\ exit_status' = 0
    /\ pc' = "exited"
    /\ UNCHANGED <<args, env_ignore_case, fs, config, build_result, run_result,
                   run_calls, run_lines, notMainVars>>

\* main: run returned Err; the error is printed and the process exits with
\* status 1.
MainRunErr ==
    /\ pc = "run_returned"
    /\ run_result.state = "err"
    /\ stdout' = Append(stdout, <<"Application error: ", run_result.err>>)
    /\ exit_status' = 1
    /\ pc' = "exited"
    /\ UNCHANGED <<args, env_ignore_case, fs, config, build_result, run_result,
                   run_calls, run_lines, notMainVars>>

\* main: run returned Ok; main returns and the process ends with status 0.
MainReturn ==
    /\ pc = "run_returned"
    /\ run_result.state = "ok"
    /\ exit_status' = 0
    /\ pc' = "exited"
    /\ UNCHANGED <<args, env_ignore_case, fs, config, build_result, run_result,
                   run_calls, run_lines, stdout, notMainVars>>

NextMain ==
    \/ MainBuildOk
    \/ MainBuildErr
    \/ RunSearch
    \/ RunReadErr
    \/ RunPrintLine
    \/ RunReturnOk
    \/ MainRunErr
    \/ MainReturn

SpecMain == InitMain /\ [][NextMain]_vars

(***************************************************************************)
(* chapter-8/src/challenges.rs: challenge_1, the median and the mode of a  *)
(* Vec<i32>.  The integers are 32 bits wide; an addition that overflows    *)
(* panics in a build with overflow checks and wraps in one without.  An    *)
(* f32 is the record [mant, exp] of the value mant * 2^exp, with mant odd  *)
(* (or both 0), so that equal values are equal records.                    *)
(***************************************************************************)
MaxVec == 4

I32Max == 2147483647
I32Min == -I32Max - 1

\* The number of bits of the significand of an f32.
F32Digits == 24

\* The integers the lists are drawn from: small ones, one beyond the
\* integers an f32 holds exactly, and the two ends of i32.
IntPool == {I32Min, -1, 1, 2, 16777217, I32Max}

\* i32 addition: whether it overflows, and the wrapped sum.
AddI32(a, b) ==
    IF b > 0 /\ a > I32Max - b
    THEN [overflow |-> TRUE, value |-> ((a - I32Max) + (b - I32Max)) - 2]
    ELSE IF b < 0 /\ a < I32Min - b
    THEN [overflow |-> TRUE, value |-> (a - I32Min) + (b - I32Min)]
    ELSE [overflow |-> FALSE, value |-> a + b]

\* mant * 2^exp with the factors of two moved into the exponent.
RECURSIVE NormalF32(_, _)
NormalF32(mant, exp) ==
    IF mant = 0 THEN [mant |-> 0, exp |-> 0]
    ELSE IF mant % 2 = 0 THEN NormalF32(mant \div 2, exp + 1)
    ELSE [mant |-> mant, exp |-> exp]

\* `n as f32`: the nearest value with a significand of F32Digits bits, a tie
\* going to the even significand.
AsF32(n) ==
    IF n = I32Min THEN NormalF32(-1, 31)
    ELSE LET a == IF n < 0 THEN -n ELSE n
             sign == IF n < 0 THEN -1 ELSE 1
             limit == 2 ^ F32Digits
         IN  IF a < limit THEN NormalF32(n, 0)
             ELSE LET e == CHOOSE x \in 1..(31 - F32Digits) :
                                /\ a \div (2 ^ x) < limit
                                /\ a \div (2 ^ (x - 1)) >= limit
                      q == 2 ^ e
                      k == a \div q
                      r == a % q
                      up == 2 * r > q \/ (2 * r = q /\ k % 2 = 1)
                  IN  NormalF32(sign * (IF up THEN k + 1 ELSE k), e)

\* `x / 2.0` on an f32 (exact for the values that arise here).
HalfF32(f) ==
    IF f.mant = 0 THEN f ELSE [mant |-> f.mant, exp |-> f.exp - 1]

\* Vec::sort, as an insertion sort.
RECURSIVE InsertSorted(_, _)
InsertSorted(x, sorted) ==
    IF sorted = <<>> THEN <<x>>
    ELSE IF x <= Head(sorted) THEN <<x>> \o sorted
    ELSE <<Head(sorted)>> \o InsertSorted(x, Tail(sorted))

RECURSIVE Sort(_)
Sort(v) == IF v = <<>> THEN <<>> ELSE InsertSorted(Head(v), Sort(Tail(v)))

ZeroF32 == [mant |-> 0, exp |-> 0]

\* calculate_median: [panic, value].  Index i of the Vec is sorted_vec[i + 1]
\* here; an index that is not below the length panics.
calculate_median(v, checks) ==
    LET sorted_vec == Sort(v)
        len == Len(sorted_vec)
        middle_index == len \div 2
    IN  IF len % 2 = 0
        THEN IF middle_index >= len
             THEN [panic |-> TRUE, value |-> ZeroF32]
             ELSE LET sum == AddI32(sorted_vec[middle_index + 1],
                                    sorted_vec[middle_index])
                  IN  IF sum.overflow /\ checks
                      THEN [panic |-> TRUE, value |-> ZeroF32]
                      ELSE [panic |-> FALSE,
                            value |-> HalfF32(AsF32(sum.value))]
        ELSE [panic |-> FALSE, value |-> AsF32(sorted_vec[middle_index + 1])]

\* The first loop of calculate_mode: the frequency of each number.
RECURSIVE FrequencyLoop(_, _, _)
FrequencyLoop(v, i, dict) ==
    IF i > Len(v) THEN dict
    ELSE LET num == v[i]
             entry == IF num \in DOMAIN dict THEN dict ELSE dict @@ (num :> 0)
         IN  FrequencyLoop(v, i + 1, [entry EXCEPT ![num] = @ + 1])

\* The second loop of calculate_mode over the keys not yet visited.  A
\* HashMap is iterated in an order the program does not choose: the result
\* is the set of the <<mode, max_frequency>> pairs of all orders.
RECURSIVE ModeLoop(_, _, _, _)
ModeLoop(dict, keys, mode, max_frequency) ==
    IF keys = {} THEN {<<mode, max_frequency>>}
    ELSE UNION {
            IF dict[num] > max_frequency
            THEN ModeLoop(dict, keys \ {num}, num, dict[num])
            ELSE ModeLoop(dict, keys \ {num}, mode, max_frequency)
            : num \in keys}

\* calculate_mode: the Option<i32> values it can return, as [some, value].
calculate_mode(v) ==
    LET frequency_dict == FrequencyLoop(v, 1, <<>>)
    IN  {IF end[2] = 1 THEN [some |-> FALSE, value |-> 0]
                       ELSE [some |-> TRUE, value |-> end[1]]
         : end \in ModeLoop(frequency_dict, DOMAIN frequency_dict, 0, 0)}

NoChallenge1Result ==
    [median |-> ZeroF32, mode |-> [some |-> FALSE, value |-> 0]]

InitChallenge1 ==
    /\ vec \in StringsUpTo(IntPool, MaxVec)
    /\ overflow_checks \in BOOLEAN
    /\ c1_pc = "call"
    /\ c1_result = NoChallenge1Result
    /\ SearchIdle /\ MainIdle /\ C2Idle /\ C3Idle /\ GuessIdle /\ MixIdle /\ TimeoutIdle /\ ShareIdle /\ JoinIdle /\ UsingIdle /\ QuizIdle /\ MpIdle /\ TrackerIdle /\ V3Idle /\ TreeIdle /\ CloneIdle

\* challenge_1 returns the median and one of the modes calculate_mode can
\* return.
Challenge1Return ==
    /\ c1_pc = "call"
    /\ LET med == calculate_median(vec, overflow_checks) IN
        /\ ~med.panic
        /\ \E m \in calculate_mode(vec) :
              c1_result' = [median |-> med.value, mode |-> m]
    /\ c1_pc' = "returned"
    /\ UNCHANGED <<vec, overflow_checks, notC1Vars>>

\* challenge_1 panics in calculate_median, its first call.
Challenge1Panic ==
    /\ c1_pc = "call"
    /\ calculate_median(vec, overflow_checks).panic
    /\ c1_pc' = "panicked"
    /\ UNCHANGED <<vec, overflow_checks, c1_result, notC1Vars>>

NextChallenge1 == Challenge1Return \/ Challenge1Panic

SpecChallenge1 == InitChallenge1 /\ [][NextChallenge1]_vars

(***************************************************************************)
(* chapter-8/src/challenges.rs: challenge_2, pig latin.                    *)
(***************************************************************************)
MaxWords == 5

\* The characters of the input: a lowercase vowel, an uppercase vowel, a
\* consonant and two white-space characters.
WordChars == {"a", "O", "f", " ", "\t"}

\* char::is_whitespace on the characters of the model.
IsWhitespace(c) == c \in {" ", "\t", "\n", "\r"}

\* The least position of a set of positions, n when the set is empty.
FirstOf(hits, n) ==
    IF hits = {} THEN n ELSE CHOOSE j \in hits : \A k \in hits : j <= k

\* The first position from i on that holds white space (a space, a
\* character that is not white space); Len(s) + 1 when there is none.
FindWhitespace(s, i) ==
    FirstOf({j \in i..Len(s) : IsWhitespace(s[j])}, Len(s) + 1)

FindSpace(s, i) == FirstOf({j \in i..Len(s) : s[j] = " "}, Len(s) + 1)

FindWord(s, i) ==
    FirstOf({j \in i..Len(s) : ~IsWhitespace(s[j])}, Len(s) + 1)

\* str::split(' '), collected: the pieces between single spaces, the empty
\* ones included.
RECURSIVE SplitAtSpaces(_)
SplitAtSpaces(s) ==
    LET stop == FindSpace(s, 1) IN
    IF stop > Len(s) THEN <<s>>
    ELSE <<SubSeq(s, 1, stop - 1)>> \o SplitAtSpaces(SubSeq(s, stop + 1, Len(s)))

\* str::split_whitespace, collected: the maximal runs of characters that are
\* not white space; no item is empty.
RECURSIVE SplitWhitespace(_)
SplitWhitespace(s) ==
    LET start == FindWord(s, 1) IN
    IF start > Len(s) THEN <<>>
    ELSE LET stop == FindWhitespace(s, start) IN
         <<SubSeq(s, start, stop - 1)>>
            \o SplitWhitespace(SubSeq(s, stop, Len(s)))

\* [String]::join(sep)
RECURSIVE Join(_, _)
Join(strs, sep) ==
    IF strs = <<>> THEN <<>>
    ELSE IF Len(strs) = 1 THEN strs[1]
    ELSE strs[1] \o sep \o Join(Tail(strs), sep)

\* One turn of the loop of challenge_2: [panic, value].  chars.next().unwrap()
\* panics on an empty word.
PigLatinWord(word) ==
    IF word = <<>> THEN [panic |-> TRUE, value |-> <<>>]
    ELSE LET first_char == Head(word) IN
         IF first_char \in {"a", "e", "i", "o", "u"}
         THEN [panic |-> FALSE, value |-> word \o <<"-", "h", "a", "y">>]
         ELSE LET rest_of_word == Tail(word) IN
              [panic |-> FALSE,
               value |-> rest_of_word \o <<"-", first_char, "a", "y">>]

\* The loop of challenge_2 from word i on; acc is pig_latin_words.
RECURSIVE PigLatinLoop(_, _, _)
PigLatinLoop(ws, i, acc) ==
    IF i > Len(ws) THEN [panic |-> FALSE, value |-> Join(acc, <<" ">>)]
    ELSE LET w == PigLatinWord(ws[i]) IN
         IF w.panic THEN [panic |-> TRUE, value |-> <<>>]
         ELSE PigLatinLoop(ws, i + 1, Append(acc, w.value))

\* A challenge_2 that splits its input at single spaces.
challenge_2_split_at_spaces(w) == PigLatinLoop(SplitAtSpaces(w), 1, <<>>)

challenge_2(w) == PigLatinLoop(SplitWhitespace(w), 1, <<>>)

InitChallenge2 ==
    /\ words \in StringsUpTo(WordChars, MaxWords)
    /\ c2_pc = "call"
    /\ c2_result = <<>>
    /\ SearchIdle /\ MainIdle /\ C1Idle /\ C3Idle /\ GuessIdle /\ MixIdle /\ TimeoutIdle /\ ShareIdle /\ JoinIdle /\ UsingIdle /\ QuizIdle /\ MpIdle /\ TrackerIdle /\ V3Idle /\ TreeIdle /\ CloneIdle

\* challenge_2 is called: it returns its String, or panics where unwrap does.
Challenge2 ==
    /\ c2_pc = "call"
    /\ LET r == challenge_2(words) IN
        /\ c2_pc' = IF r.panic THEN "panicked" ELSE "returned"
        /\ c2_result' = r.value
    /\ UNCHANGED <<words, notC2Vars>>

NextChallenge2 == Challenge2

SpecChallenge2 == InitChallenge2 /\ [][NextChallenge2]_vars

(***************************************************************************)
(* chapter-8/challenges.rs, challenge_3: the employees of a company's      *)
(* departments.                                                            *)
(***************************************************************************)
MaxAdds == 2

\* The variants of Department, by the names the commands use.
Departments == {"Engineering", "Sales", "Marketing", "HumanResources"}

\* The department names of the commands: the four valid ones and one that
\* is no department.
DepartmentPool == Departments \cup {"Finance"}

\* The employee names of the commands.
EmployeePool == {<<"S", "a">>, <<"J", "o">>, <<"A", "m">>}

\* The byte of a letter (String's Ord compares the bytes).
ByteOf(c) ==
    CASE c = "A" -> 65
      [] c = "J" -> 74
      [] c = "S" -> 83
      [] c = "a" -> 97
      [] c = "m" -> 109
      [] OTHER -> 111

\* s <= t for two Strings: lexicographic on the bytes.
RECURSIVE StringLe(_, _)
StringLe(s, t) ==
    IF s = <<>> THEN TRUE
    ELSE IF t = <<>> THEN FALSE
    ELSE IF ByteOf(Head(s)) # ByteOf(Head(t))
         THEN ByteOf(Head(s)) < ByteOf(Head(t))
    ELSE StringLe(Tail(s), Tail(t))

\* Vec<String>::sort: a stable sort by String's Ord.
RECURSIVE InsertSortedString(_, _)
InsertSortedString(sorted, x) ==
    IF sorted = <<>> THEN <<x>>
    ELSE IF StringLe(Head(sorted), x)
         THEN <<Head(sorted)>> \o InsertSortedString(Tail(sorted), x)
    ELSE <<x>> \o sorted

RECURSIVE SortStrings(_)
SortStrings(v) ==
    IF v = <<>> THEN <<>>
    ELSE InsertSortedString(SortStrings(SubSeq(v, 1, Len(v) - 1)), v[Len(v)])

\* Company::new(): a HashMap without entries.
NewCompany == [d \in Departments |-> [present |-> FALSE, employees |-> <<>>]]

\* add_employee: an invalid department panics; otherwise the employee is
\* pushed to the department's entry, inserted empty when it is missing.
add_employee(deps, employee, department) ==
    IF department \notin Departments
    THEN [panic |-> TRUE, departments |-> deps]
    ELSE [panic |-> FALSE,
          departments |->
              [deps EXCEPT ![department] =
                  [present |-> TRUE,
                   employees |-> Append(deps[department].employees, employee)]]]

\* The values `().into()` can stand for.  retrieve_employees ends with
\* `sorted_employees.sort().into()`: sort() sorts in place and returns the
\* unit value, and the function's value is converted from that unit value,
\* not from the sorted clone.  The standard library has no such conversion;
\* whatever a conversion gives, it cannot depend on the list, so any Vec is
\* an outcome.
UnitInto == StringsUpTo(EmployeePool, MaxAdds)

\* retrieve_employees: the set of its outcomes.  An invalid department
\* panics, a department without an entry panics in unwrap().
retrieve_employees(deps, department) ==
    IF department \notin Departments THEN {[panic |-> TRUE, value |-> <<>>]}
    ELSE IF ~deps[department].present THEN {[panic |-> TRUE, value |-> <<>>]}
    ELSE LET employees == deps[department].employees
             sorted_employees == SortStrings(employees)
         IN  {[panic |-> FALSE, value |-> v] : v \in UnitInto}

InitChallenge3 ==
    /\ departments = NewCompany
    /\ c3_log = <<>>
    /\ c3_pc = "ready"
    /\ retrieved = [state |-> "none", department |-> "", employees |-> <<>>]
    /\ SearchIdle /\ MainIdle /\ C1Idle /\ C2Idle /\ GuessIdle /\ MixIdle /\ TimeoutIdle /\ ShareIdle /\ JoinIdle /\ UsingIdle /\ QuizIdle /\ MpIdle /\ TrackerIdle /\ V3Idle /\ TreeIdle /\ CloneIdle

\* execute_command(Command::Add(employee, department))
ExecuteAdd ==
    /\ c3_pc = "ready"
    /\ Len(c3_log) < MaxAdds
    /\ \E employee \in EmployeePool, department \in DepartmentPool :
          LET r == add_employee(departments, employee, department)
          IN  /\ departments' = r.departments
              /\ c3_pc' = IF r.panic THEN "panicked" ELSE "ready"
              /\ c3_log' = IF r.panic THEN c3_log
                           ELSE Append(c3_log, [employee |-> employee,
                                                department |-> department])
    /\ retrieved' = [state |-> "none", department |-> "", employees |-> <<>>]
    /\ UNCHANGED notC3Vars

\* company.retrieve_employees(department), as the test calls it
RetrieveEmployees ==
    /\ c3_pc = "ready"
    /\ \E department \in DepartmentPool :
          \E r \in retrieve_employees(departments, department) :
              /\ c3_pc' = IF r.panic THEN "panicked" ELSE "ready"
              /\ retrieved' =
                    IF r.panic
                    THEN [state |-> "none", department |-> "", employees |-> <<>>]
                    ELSE [state |-> "returned", department |-> department,
                          employees |-> r.value]
    /\ UNCHANGED <<departments, c3_log>>
    /\ UNCHANGED notC3Vars

NextChallenge3 == ExecuteAdd \/ RetrieveEmployees

SpecChallenge3 == InitChallenge3 /\ [][NextChallenge3]_vars

(***************************************************************************)
(* chapter-11/src/lib.rs and chapter-9/src/main.rs: Guess.                 *)
(***************************************************************************)
MaxGuesses == 2

\* The i32 arguments given to Guess::new.
GuessPool == {I32Min, -1, 0, 1, 2, 50, 99, 100, 101, 200, I32Max}

\* Guess::new with the upper limit one too high.
Guess_new_to_101(value) ==
    IF value < 1 \/ value > 101
    THEN [panic |-> TRUE, guess |-> [value |-> 0]]
    ELSE [panic |-> FALSE, guess |-> [value |-> value]]

\* Guess::new: panics outside 1..=100, else wraps the value.
Guess_new(value) ==
    IF value < 1 \/ value > 100
    THEN [panic |-> TRUE, guess |-> [value |-> 0]]
    ELSE [panic |-> FALSE, guess |-> [value |-> value]]

\* Guess::value: the getter of the private field.
Guess_value(guess) == guess.value

InitGuess ==
    /\ guesses = <<>>
    /\ guess_arg = [some |-> FALSE, value |-> 0]
    /\ guess_pc = "ready"
    /\ guess_value = [some |-> FALSE, value |-> 0]
    /\ SearchIdle /\ MainIdle /\ C1Idle /\ C2Idle /\ C3Idle /\ MixIdle /\ TimeoutIdle /\ ShareIdle /\ JoinIdle /\ UsingIdle /\ QuizIdle /\ MpIdle /\ TrackerIdle /\ V3Idle /\ TreeIdle /\ CloneIdle

\* Guess::new(value) returns a Guess.
GuessNew ==
    /\ guess_pc = "ready"
    /\ Len(guesses) < MaxGuesses
    /\ \E value \in GuessPool :
          /\ ~Guess_new(value).panic
          /\ guesses' = Append(guesses, Guess_new(value).guess)
          /\ guess_arg' = [some |-> TRUE, value |-> value]
    /\ UNCHANGED <<guess_pc, guess_value>>
    /\ UNCHANGED notGuessVars

\* Guess::new(value) panics: no Guess is made and the caller unwinds.
GuessNewPanic ==
    /\ guess_pc = "ready"
    /\ \E value \in GuessPool :
          /\ Guess_new(value).panic
          /\ guess_arg' = [some |-> TRUE, value |-> value]
    /\ guess_pc' = "panicked"
    /\ UNCHANGED <<guesses, guess_value>>
    /\ UNCHANGED notGuessVars

\* guess.value() on a Guess that exists.
GuessValue ==
    /\ guess_pc = "ready"
    /\ \E i \in 1..Len(guesses) :
          guess_value' = [some |-> TRUE, value |-> Guess_value(guesses[i])]
    /\ UNCHANGED <<guesses, guess_arg, guess_pc>>
    /\ UNCHANGED notGuessVars

NextGuess == GuessNew \/ GuessNewPanic \/ GuessValue

SpecGuess == InitGuess /\ [][NextGuess]_vars

(***************************************************************************)
(* chapter-14/art_lib_with_reexport/src/lib.rs: mix.                       *)
(***************************************************************************)
MaxMixes == 3

\* kinds::PrimaryColor
PrimaryColor == {"Red", "Yellow", "Blue"}

\* Option<SecondaryColor>
None == [some |-> FALSE, value |-> "None"]
Some(color) == [some |-> TRUE, value |-> color]

\* mix with the Yellow arm's Red case giving Green.
mix_yellow_red_green(c1, c2) ==
    CASE c1 = "Red" ->
            (CASE c2 = "Yellow" -> Some("Orange")
               [] c2 = "Blue" -> Some("Purple")
               [] OTHER -> None)
      [] c1 = "Yellow" ->
            (CASE c2 = "Red" -> Some("Green")
               [] c2 = "Blue" -> Some("Green")
               [] OTHER -> None)
      [] c1 = "Blue" ->
            (CASE c2 = "Red" -> Some("Purple")
               [] c2 = "Yellow" -> Some("Green")
               [] OTHER -> None)

\* utils::mix: the match on c1, then on c2.
mix(c1, c2) ==
    CASE c1 = "Red" ->
            (CASE c2 = "Yellow" -> Some("Orange")
               [] c2 = "Blue" -> Some("Purple")
               [] OTHER -> None)
      [] c1 = "Yellow" ->
            (CASE c2 = "Red" -> Some("Orange")
               [] c2 = "Blue" -> Some("Green")
               [] OTHER -> None)
      [] c1 = "Blue" ->
            (CASE c2 = "Red" -> Some("Purple")
               [] c2 = "Yellow" -> Some("Green")
               [] OTHER -> None)

InitMix ==
    /\ mixes = <<>>
    /\ SearchIdle /\ MainIdle /\ C1Idle /\ C2Idle /\ C3Idle /\ GuessIdle /\ TimeoutIdle /\ ShareIdle /\ JoinIdle /\ UsingIdle /\ QuizIdle /\ MpIdle /\ TrackerIdle /\ V3Idle /\ TreeIdle /\ CloneIdle

\* One call mix(c1, c2), as the tests make them.
CallMix ==
    /\ Len(mixes) < MaxMixes
    /\ \E c1 \in PrimaryColor, c2 \in PrimaryColor :
          mixes' = Append(mixes, [c1 |-> c1, c2 |-> c2, result |-> mix(c1, c2)])
    /\ UNCHANGED notMixVars

NextMix == CallMix

SpecMix == InitMix /\ [][NextMix]_vars

(***************************************************************************)
(* chapter-17/concurrency_with_async, working_with_any_number_of_futures:  *)
(* timeout.  Time is counted in ticks of the runtime's timer; the future   *)
(* to try sleeps future_time ticks and then gives its output (it is        *)
(* complete at its first poll when future_time is 0).                      *)
(***************************************************************************)
MaxDuration == 5

\* The outputs of the future to try.
FutureOutputs == {"Finally finished", "done"}

\* race with the timer polled before the future.
race_right_first(left_ready, right_ready) ==
    IF right_ready THEN "Right"
    ELSE IF left_ready THEN "Left"
    ELSE "Pending"

\* One poll of trpl::race(left, right): the first argument is polled first,
\* the second only when the first is pending.
race(left_ready, right_ready) ==
    IF left_ready THEN "Left"
    ELSE IF right_ready THEN "Right"
    ELSE "Pending"

\* The earlier of two deadlines.
MinDue(a, b) == IF a <= b THEN a ELSE b

InitTimeout ==
    /\ timeout_in \in [future_time : 0..MaxDuration, output : FutureOutputs,
                       max_time : 0..MaxDuration]
    /\ clock = 0
    /\ sleeps = [future_due |-> 0, timer_due |-> 0]
    /\ timeout_pc = "call"
    /\ timeout_result = [ok |-> FALSE, output |-> "", duration |-> 0]
    /\ SearchIdle /\ MainIdle /\ C1Idle /\ C2Idle /\ C3Idle /\ GuessIdle /\ MixIdle /\ ShareIdle /\ JoinIdle /\ UsingIdle /\ QuizIdle /\ MpIdle /\ TrackerIdle /\ V3Idle /\ TreeIdle /\ CloneIdle

\* One poll of timeout's future.  At the first poll trpl::sleep(max_time)
\* is made and the future to try is polled for the first time, which starts
\* its own sleep: the timer's clock may have moved one tick in between.
TimeoutPoll ==
    /\ timeout_pc \in {"call", "woken"}
    /\ \E late \in 0..1 :
          LET first == timeout_pc = "call"
              timer_due == IF first THEN clock + timeout_in.max_time
                           ELSE sleeps.timer_due
              future_due == IF ~first THEN sleeps.future_due
                            ELSE IF timeout_in.future_time = 0 THEN clock
                            ELSE clock + timeout_in.future_time + late
              r == race(clock >= future_due, clock >= timer_due)
          IN  /\ sleeps' = [future_due |-> future_due, timer_due |-> timer_due]
              /\ timeout_pc' = IF r = "Pending" THEN "pending" ELSE "returned"
              /\ timeout_result' =
                    CASE r = "Left" ->
                            [ok |-> TRUE, output |-> timeout_in.output,
                             duration |-> 0]
                      [] r = "Right" ->
                            [ok |-> FALSE, output |-> "",
                             duration |-> timeout_in.max_time]
                      [] OTHER -> timeout_result
    /\ UNCHANGED <<timeout_in, clock>>
    /\ UNCHANGED notTimeoutVars

\* Time passes while the task is pending; the timer wakes the task at the
\* earlier deadline.
TimeoutTick ==
    /\ timeout_pc = "pending"
    /\ clock' = clock + 1
    /\ timeout_pc' = IF clock + 1 >= MinDue(sleeps.future_due, sleeps.timer_due)
                     THEN "woken" ELSE "pending"
    /\ UNCHANGED <<timeout_in, sleeps, timeout_result>>
    /\ UNCHANGED notTimeoutVars

NextTimeout == TimeoutPoll \/ TimeoutTick

SpecTimeout == InitTimeout /\ [][NextTimeout]_vars

(***************************************************************************)
(* chapter-16/src/lib.rs, section_three::sharing_data_across_threads: ten  *)
(* threads increment a counter in an Arc<Mutex<i32>>.                      *)
(***************************************************************************)
\* `for _ in 0..10`: the number of threads spawned.
NumThreads == 10

Threads == 1..NumThreads

\* A lock that is given to a thread whoever holds it.
lock_always(holder) == TRUE

\* Mutex::lock returns when no thread holds the lock (it blocks until then).
lock(holder) == holder = 0

InitShare ==
    /\ counter = 0
    /\ mutex_holder = 0
    /\ thread_pc = [t \in Threads |-> "unspawned"]
    /\ thread_num = [t \in Threads |-> 0]
    /\ share_pc = "spawn"
    /\ share_i = 0
    /\ share_result = -1
    /\ SearchIdle /\ MainIdle /\ C1Idle /\ C2Idle /\ C3Idle /\ GuessIdle /\ MixIdle /\ TimeoutIdle /\ JoinIdle /\ UsingIdle /\ QuizIdle /\ MpIdle /\ TrackerIdle /\ V3Idle /\ TreeIdle /\ CloneIdle

\* One turn of main's first loop: clone the Arc, spawn a thread, print its
\* id, push the handle.
ShareSpawn ==
    /\ share_pc = "spawn"
    /\ share_i < NumThreads
    /\ thread_pc' = [thread_pc EXCEPT ![share_i + 1] = "lock"]
    /\ share_i' = share_i + 1
    /\ UNCHANGED <<counter, mutex_holder, thread_num, share_pc, share_result>>
    /\ UNCHANGED notShareVars

\* The first loop is over: main starts to join the handles.
ShareSpawned ==
    /\ share_pc = "spawn"
    /\ share_i = NumThreads
    /\ share_pc' = "join"
    /\ share_i' = 0
    /\ UNCHANGED <<counter, mutex_holder, thread_pc, thread_num, share_result>>
    /\ UNCHANGED notShareVars

\* let mut num = counter.lock().unwrap();
ThreadLock(t) ==
    /\ thread_pc[t] = "lock"
    /\ lock(mutex_holder)
    /\ mutex_holder' = t
    /\ thread_pc' = [thread_pc EXCEPT ![t] = "print"]
    /\ UNCHANGED <<counter, thread_num, share_pc, share_i, share_result>>
    /\ UNCHANGED notShareVars

\* println!("num = {}", &num);
ThreadPrint(t) ==
    /\ thread_pc[t] = "print"
    /\ thread_pc' = [thread_pc EXCEPT ![t] = "read"]
    /\ UNCHANGED <<counter, mutex_holder, thread_num, share_pc, share_i, share_result>>
    /\ UNCHANGED notShareVars

\* *num += 1, the read
ThreadRead(t) ==
    /\ thread_pc[t] = "read"
    /\ thread_num' = [thread_num EXCEPT ![t] = counter]
    /\ thread_pc' = [thread_pc EXCEPT ![t] = "write"]
    /\ UNCHANGED <<counter, mutex_holder, share_pc, share_i, share_result>>
    /\ UNCHANGED notShareVars

\* *num += 1, the write (the register is dead afterwards)
ThreadWrite(t) ==
    /\ thread_pc[t] = "write"
    /\ counter' = thread_num[t] + 1
    /\ thread_num' = [thread_num EXCEPT ![t] = 0]
    /\ thread_pc' = [thread_pc EXCEPT ![t] = "unlock"]
    /\ UNCHANGED <<mutex_holder, share_pc, share_i, share_result>>
    /\ UNCHANGED notShareVars

\* The closure ends: the MutexGuard is dropped and the thread finishes.
ThreadUnlock(t) ==
    /\ thread_pc[t] = "unlock"
    /\ mutex_holder' = IF mutex_holder = t THEN 0 ELSE mutex_holder
    /\ thread_pc' = [thread_pc EXCEPT ![t] = "done"]
    /\ UNCHANGED <<counter, thread_num, share_pc, share_i, share_result>>
    /\ UNCHANGED notShareVars

\* handle.join().unwrap() on the next handle: returns once its thread is done.
ShareJoin ==
    /\ share_pc = "join"
    /\ share_i < NumThreads
    /\ thread_pc[share_i + 1] = "done"
    /\ share_i' = share_i + 1
    /\ UNCHANGED <<counter, mutex_holder, thread_pc, thread_num, share_pc, share_result>>
    /\ UNCHANGED notShareVars

\* println!("Result: {}", *counter.lock().unwrap()); the guard is a
\* temporary of the statement.
SharePrintResult ==
    /\ share_pc = "join"
    /\ share_i = NumThreads
    /\ lock(mutex_holder)
    /\ share_result' = counter
    /\ share_pc' = "done"
    /\ UNCHANGED <<counter, mutex_holder, thread_pc, thread_num, share_i>>
    /\ UNCHANGED notShareVars

NextShare ==
    \/ ShareSpawn
    \/ ShareSpawned
    \/ \E t \in Threads :
          \/ ThreadLock(t)
          \/ ThreadPrint(t)
          \/ ThreadRead(t)
          \/ ThreadWrite(t)
          \/ ThreadUnlock(t)
    \/ ShareJoin
    \/ SharePrintResult

SpecShare == InitShare /\ [][NextShare]_vars

(***************************************************************************)
(* chapter-16/src/lib.rs, join_handles::main: a spawned thread and the     *)
(* main thread print their messages; main joins the spawned thread.        *)
(* thread::sleep only delays a thread: every interleaving of the two       *)
(* loops is a behaviour.                                                   *)
(***************************************************************************)
\* A join that returns without waiting.
handle_join_no_wait(thread_state) == TRUE

\* JoinHandle::join returns once the handle's thread has finished.
handle_join(thread_state) == thread_state = "finished"

InitJoinHandles ==
    /\ jh_pc = "spawn"
    /\ jh_i = 1
    /\ jh_thread_pc = "unspawned"
    /\ jh_thread_i = 1
    /\ jh_stdout = <<>>
    /\ SearchIdle /\ MainIdle /\ C1Idle /\ C2Idle /\ C3Idle /\ GuessIdle /\ MixIdle /\ TimeoutIdle /\ ShareIdle /\ UsingIdle /\ QuizIdle /\ MpIdle /\ TrackerIdle /\ V3Idle /\ TreeIdle /\ CloneIdle

\* let handle = thread::spawn(...)
JoinHandlesSpawn ==
    /\ jh_pc = "spawn"
    /\ jh_pc' = "loop"
    /\ jh_thread_pc' = "loop"
    /\ UNCHANGED <<jh_i, jh_thread_i, jh_stdout>>
    /\ UNCHANGED notJoinVars

\* One turn of the spawned thread's `for i in 1..10`: print, then sleep.
JoinHandlesThreadPrint ==
    /\ jh_thread_pc = "loop"
    /\ jh_thread_i < 10
    /\ jh_stdout' = Append(jh_stdout, <<"spawned", jh_thread_i>>)
    /\ jh_thread_i' = jh_thread_i + 1
    /\ UNCHANGED <<jh_pc, jh_i, jh_thread_pc>>
    /\ UNCHANGED notJoinVars

\* The spawned thread's loop is over: the closure returns.
JoinHandlesThreadFinish ==
    /\ jh_thread_pc = "loop"
    /\ jh_thread_i = 10
    /\ jh_thread_pc' = "finished"
    /\ UNCHANGED <<jh_pc, jh_i, jh_thread_i, jh_stdout>>
    /\ UNCHANGED notJoinVars

\* One turn of main's `for i in 1..5`: print, then sleep.
JoinHandlesMainPrint ==
    /\ jh_pc = "loop"
    /\ jh_i < 5
    /\ jh_stdout' = Append(jh_stdout, <<"main", jh_i>>)
    /\ jh_i' = jh_i + 1
    /\ UNCHANGED <<jh_pc, jh_thread_pc, jh_thread_i>>
    /\ UNCHANGED notJoinVars

\* Main's loop is over: it calls handle.join().
JoinHandlesMainLoopEnd ==
    /\ jh_pc = "loop"
    /\ jh_i = 5
    /\ jh_pc' = "join"
    /\ UNCHANGED <<jh_i, jh_thread_pc, jh_thread_i, jh_stdout>>
    /\ UNCHANGED notJoinVars

\* handle.join().unwrap() returns, and main with it.
JoinHandlesMainReturn ==
    /\ jh_pc = "join"
    /\ handle_join(jh_thread_pc)
    /\ jh_pc' = "returned"
    /\ UNCHANGED <<jh_i, jh_thread_pc, jh_thread_i, jh_stdout>>
    /\ UNCHANGED notJoinVars

NextJoinHandles ==
    \/ JoinHandlesSpawn
    \/ JoinHandlesThreadPrint
    \/ JoinHandlesThreadFinish
    \/ JoinHandlesMainPrint
    \/ JoinHandlesMainLoopEnd
    \/ JoinHandlesMainReturn

SpecJoinHandles == InitJoinHandles /\ [][NextJoinHandles]_vars

(***************************************************************************)
(* chapter-16/src/lib.rs, using_threads_to_run_code_simultaneously::main:  *)
(* the same two loops, of 99 and 49 messages, without a join.  The number  *)
(* of messages printed by a thread is its loop variable minus one.  After  *)
(* main has returned its caller goes on, and the process ends at some time *)
(* the spawned thread has no say in: it ends every thread still running.   *)
(***************************************************************************)
InitUsingThreads ==
    /\ ut_pc = "spawn"
    /\ ut_i = 1
    /\ ut_thread_pc = "unspawned"
    /\ ut_thread_i = 1
    /\ SearchIdle /\ MainIdle /\ C1Idle /\ C2Idle /\ C3Idle /\ GuessIdle /\ MixIdle /\ TimeoutIdle /\ ShareIdle /\ JoinIdle /\ QuizIdle /\ MpIdle /\ TrackerIdle /\ V3Idle /\ TreeIdle /\ CloneIdle

\* thread::spawn(...): the handle is dropped, the thread is detached.
UsingThreadsSpawn ==
    /\ ut_pc = "spawn"
    /\ ut_pc' = "loop"
    /\ ut_thread_pc' = "loop"
    /\ UNCHANGED <<ut_i, ut_thread_i>>
    /\ UNCHANGED notUsingVars

\* One turn of the spawned thread's `for i in 1..100`: print, then sleep.
UsingThreadsThreadPrint ==
    /\ ut_pc # "exited"
    /\ ut_thread_pc = "loop"
    /\ ut_thread_i < 100
    /\ ut_thread_i' = ut_thread_i + 1
    /\ UNCHANGED <<ut_pc, ut_i, ut_thread_pc>>
    /\ UNCHANGED notUsingVars

\* The spawned thread's loop is over: the closure returns.
UsingThreadsThreadFinish ==
    /\ ut_pc # "exited"
    /\ ut_thread_pc = "loop"
    /\ ut_thread_i = 100
    /\ ut_thread_pc' = "finished"
    /\ UNCHANGED <<ut_pc, ut_i, ut_thread_i>>
    /\ UNCHANGED notUsingVars

\* One turn of main's `for i in 1..50`: print, then sleep.
UsingThreadsMainPrint ==
    /\ ut_pc = "loop"
    /\ ut_i < 50
    /\ ut_i' = ut_i + 1
    /\ UNCHANGED <<ut_pc, ut_thread_pc, ut_thread_i>>
    /\ UNCHANGED notUsingVars

\* A main that waits for the spawned thread before it returns.
UsingThreadsMainReturnJoined ==
    /\ ut_pc = "loop"
    /\ ut_i = 50
    /\ ut_thread_pc = "finished"
    /\ ut_pc' = "returned"
    /\ UNCHANGED <<ut_i, ut_thread_pc, ut_thread_i>>
    /\ UNCHANGED notUsingVars

\* Main's loop is over: main returns.
UsingThreadsMainReturn ==
    /\ ut_pc = "loop"
    /\ ut_i = 50
    /\ ut_pc' = "returned"
    /\ UNCHANGED <<ut_i, ut_thread_pc, ut_thread_i>>
    /\ UNCHANGED notUsingVars

\* The process ends after main has returned.
UsingThreadsExit ==
    /\ ut_pc = "returned"
    /\ ut_pc' = "exited"
    /\ UNCHANGED <<ut_i, ut_thread_pc, ut_thread_i>>
    /\ UNCHANGED notUsingVars

NextUsingThreads ==
    \/ UsingThreadsSpawn
    \/ UsingThreadsThreadPrint
    \/ UsingThreadsThreadFinish
    \/ UsingThreadsMainPrint
    \/ UsingThreadsMainReturn
    \/ UsingThreadsExit

SpecUsingThreads == InitUsingThreads /\ [][NextUsingThreads]_vars

(***************************************************************************)
(* chapter-16/src/lib.rs, quiz: question_1 and question_2.  The two tests  *)
(* of quiz::tests are run by the test harness on threads of their own, so  *)
(* the steps of the two functions interleave.                              *)
(***************************************************************************)
\* A closure that captures n by reference: its n is question_1's.
closure_n_by_reference(thread) == "main"

\* The n a `move` closure works on: i32 is Copy, so the closure owns a copy
\* of n, taken when the closure is made.
closure_n(thread) == thread

\* The messages question_2's client sends, in order.
ClientMessages == <<"Incr", "Get", "Quit">>

InitQuiz ==
    /\ q1_pc = "spawn"
    /\ q1_t_pc = "unspawned"
    /\ q1_inner_pc = "unspawned"
    /\ q1_n = [main |-> 1, t |-> 0, inner |-> 0]
    /\ q2_pc = "spawn"
    /\ q2_sent = 0
    /\ q2_requests = <<>>
    /\ q2_replies = <<>>
    /\ q2_server_pc = "unspawned"
    /\ q2_server_n = 0
    /\ q2_got = 0
    /\ quiz_stdout = <<>>
    /\ SearchIdle /\ MainIdle /\ C1Idle /\ C2Idle /\ C3Idle /\ GuessIdle /\ MixIdle /\ TimeoutIdle /\ ShareIdle /\ JoinIdle /\ UsingIdle /\ MpIdle /\ TrackerIdle /\ V3Idle /\ TreeIdle /\ CloneIdle

q1Vars == <<q1_pc, q1_t_pc, q1_inner_pc, q1_n>>
q2Vars == <<q2_pc, q2_sent, q2_requests, q2_replies, q2_server_pc, q2_server_n, q2_got>>

\* let t = thread::spawn(move || ...): the closure takes its copy of n.
Question1SpawnT ==
    /\ q1_pc = "spawn"
    /\ q1_pc' = "incr"
    /\ q1_t_pc' = "incr"
    /\ q1_n' = [q1_n EXCEPT ![closure_n("t")] = q1_n["main"]]
    /\ UNCHANGED <<q1_inner_pc, q2Vars, quiz_stdout>>
    /\ UNCHANGED notQuizVars

\* t: n = n + 1
Question1TIncr ==
    /\ q1_t_pc = "incr"
    /\ q1_t_pc' = "spawn"
    /\ q1_n' = [q1_n EXCEPT ![closure_n("t")] = q1_n[closure_n("t")] + 1]
    /\ UNCHANGED <<q1_pc, q1_inner_pc, q2Vars, quiz_stdout>>
    /\ UNCHANGED notQuizVars

\* t: thread::spawn(move || ...), the value of t's closure: the inner
\* closure takes its copy of t's n, and t finishes.
Question1TSpawnInner ==
    /\ q1_t_pc = "spawn"
    /\ q1_t_pc' = "finished"
    /\ q1_inner_pc' = "incr"
    /\ q1_n' = [q1_n EXCEPT ![closure_n("inner")] = q1_n[closure_n("t")]]
    /\ UNCHANGED <<q1_pc, q2Vars, quiz_stdout>>
    /\ UNCHANGED notQuizVars

\* the inner thread: n = n + 1
Question1InnerIncr ==
    /\ q1_inner_pc = "incr"
    /\ q1_inner_pc' = "finished"
    /\ q1_n' = [q1_n EXCEPT ![closure_n("inner")] = q1_n[closure_n("inner")] + 1]
    /\ UNCHANGED <<q1_pc, q1_t_pc, q2Vars, quiz_stdout>>
    /\ UNCHANGED notQuizVars

\* main: n = n + 1
Question1MainIncr ==
    /\ q1_pc = "incr"
    /\ q1_pc' = "join_t"
    /\ q1_n' = [q1_n EXCEPT !["main"] = q1_n["main"] + 1]
    /\ UNCHANGED <<q1_t_pc, q1_inner_pc, q2Vars, quiz_stdout>>
    /\ UNCHANGED notQuizVars

\* main: t.join().unwrap() gives the inner thread's handle
Question1JoinT ==
    /\ q1_pc = "join_t"
    /\ handle_join(q1_t_pc)
    /\ q1_pc' = "join_inner"
    /\ UNCHANGED <<q1_t_pc, q1_inner_pc, q1_n, q2Vars, quiz_stdout>>
    /\ UNCHANGED notQuizVars

\* main: .join().unwrap() on the inner thread's handle
Question1JoinInner ==
    /\ q1_pc = "join_inner"
    /\ handle_join(q1_inner_pc)
    /\ q1_pc' = "print"
    /\ UNCHANGED <<q1_t_pc, q1_inner_pc, q1_n, q2Vars, quiz_stdout>>
    /\ UNCHANGED notQuizVars

\* main: println!("{n}")
Question1Print ==
    /\ q1_pc = "print"
    /\ q1_pc' = "returned"
    /\ quiz_stdout' = Append(quiz_stdout, [by |-> "question_1", n |-> q1_n["main"]])
    /\ UNCHANGED <<q1_t_pc, q1_inner_pc, q1_n, q2Vars>>
    /\ UNCHANGED notQuizVars

\* question_2: the channels are made and the server is spawned.
Question2Spawn ==
    /\ q2_pc = "spawn"
    /\ q2_pc' = "send"
    /\ q2_server_pc' = "recv"
    /\ UNCHANGED <<q2_sent, q2_requests, q2_replies, q2_server_n, q2_got>>
    /\ UNCHANGED <<q1Vars, quiz_stdout>>
    /\ UNCHANGED notQuizVars

\* question_2: client_tx.send(msg).unwrap() for the next message; send
\* fails, and unwrap panics, when the server's receiver is gone.
Question2Send ==
    /\ q2_pc = "send"
    /\ q2_requests' = IF q2_server_pc = "finished" THEN q2_requests
                      ELSE Append(q2_requests, ClientMessages[q2_sent + 1])
    /\ q2_sent' = q2_sent + 1
    /\ q2_pc' = IF q2_server_pc = "finished" THEN "panicked"
                ELSE IF q2_sent + 1 = Len(ClientMessages) THEN "recv"
                ELSE "send"
    /\ UNCHANGED <<q2_replies, q2_server_pc, q2_server_n, q2_got>>
    /\ UNCHANGED <<q1Vars, quiz_stdout>>
    /\ UNCHANGED notQuizVars

\* the server: one turn of its loop, once server_rx.recv() has a message.
Question2ServerRecv ==
    /\ q2_server_pc = "recv"
    /\ q2_requests # <<>>
    /\ q2_requests' = Tail(q2_requests)
    /\ q2_server_pc' = IF Head(q2_requests) = "Quit" THEN "finished" ELSE "recv"
    /\ q2_server_n' = IF Head(q2_requests) = "Incr" THEN q2_server_n + 1
                      ELSE q2_server_n
    /\ q2_replies' = IF Head(q2_requests) = "Get"
                     THEN Append(q2_replies, q2_server_n)
                     ELSE q2_replies
    /\ UNCHANGED <<q2_pc, q2_sent, q2_got>>
    /\ UNCHANGED <<q1Vars, quiz_stdout>>
    /\ UNCHANGED notQuizVars

\* question_2: client_rx.recv().unwrap() returns ServerMessage::Get(n).
Question2Recv ==
    /\ q2_pc = "recv"
    /\ q2_replies # <<>>
    /\ q2_got' = Head(q2_replies)
    /\ q2_replies' = Tail(q2_replies)
    /\ q2_pc' = "print"
    /\ UNCHANGED <<q2_sent, q2_requests, q2_server_pc, q2_server_n>>
    /\ UNCHANGED <<q1Vars, quiz_stdout>>
    /\ UNCHANGED notQuizVars

\* question_2: println!("{}", n)
Question2Print ==
    /\ q2_pc = "print"
    /\ q2_pc' = "join"
    /\ quiz_stdout' = Append(quiz_stdout, [by |-> "question_2", n |-> q2_got])
    /\ UNCHANGED <<q2_sent, q2_requests, q2_replies, q2_server_pc, q2_server_n, q2_got>>
    /\ UNCHANGED q1Vars
    /\ UNCHANGED notQuizVars

\* question_2: server.join().unwrap()
Question2Join ==
    /\ q2_pc = "join"
    /\ handle_join(q2_server_pc)
    /\ q2_pc' = "returned"
    /\ UNCHANGED <<q2_sent, q2_requests, q2_replies, q2_server_pc, q2_server_n, q2_got>>
    /\ UNCHANGED <<q1Vars, quiz_stdout>>
    /\ UNCHANGED notQuizVars

NextQuiz ==
    \/ Question1SpawnT
    \/ Question1TIncr
    \/ Question1TSpawnInner
    \/ Question1InnerIncr
    \/ Question1MainIncr
    \/ Question1JoinT
    \/ Question1JoinInner
    \/ Question1Print
    \/ Question2Spawn
    \/ Question2Send
    \/ Question2ServerRecv
    \/ Question2Recv
    \/ Question2Print
    \/ Question2Join

SpecQuiz == InitQuiz /\ [][NextQuiz]_vars

(***************************************************************************)
(* chapter-17/concurrency_with_async/src/main.rs, message_passing_3: one   *)
(* task polls trpl::join(tx_fut, rx_fut).  A poll of the join polls each   *)
(* future that is not complete, tx_fut first; the task is polled again     *)
(* when a waker it left behind is woken: by the timer when tx_fut's sleep  *)
(* is due, by the channel when a value is sent while rx.recv() waits.      *)
(* Time is counted in milliseconds up to MaxClock.                         *)
(***************************************************************************)
MaxClock == 2600

\* Duration::from_millis(500)
SleepMillis == 500

\* vals
Vals == <<"hi", "from", "the", "future">>

\* A tx_fut that owns tx: tx is dropped when the future completes.
senders_after_tx_fut_owning(moved) == 0

\* A tx_fut that borrows tx: tx outlives the future.
senders_after_tx_fut_borrowing(moved) == 1

\* The senders left when tx_fut completes: tx_fut drops tx only if tx was
\* moved into it; a tx it borrows lives on in message_passing_3.
senders_after_tx_fut(moved) == IF moved THEN 0 ELSE 1

InitMessagePassing3 ==
    /\ mp_moved = FALSE
    /\ mp_clock = 0
    /\ mp_pc = "ready"
    /\ tx_pc = "start"
    /\ tx_idx = 1
    /\ tx_due = 0
    /\ mp_senders = 1
    /\ mp_channel = <<>>
    /\ rx_pc = "recv"
    /\ rx_waiting = FALSE
    /\ mp_received = <<>>
    /\ SearchIdle /\ MainIdle /\ C1Idle /\ C2Idle /\ C3Idle /\ GuessIdle /\ MixIdle /\ TimeoutIdle /\ ShareIdle /\ JoinIdle /\ UsingIdle /\ QuizIdle /\ TrackerIdle /\ V3Idle /\ TreeIdle /\ CloneIdle

\* One poll of trpl::join(tx_fut, rx_fut).  tx_fut runs to its next sleep:
\* at the start, or when its sleep is over and vals has another value, it
\* sends the value and sleeps; after the sleep that follows the last value
\* it completes.  Then rx_fut receives and prints what the channel holds;
\* with the channel empty, rx.recv() gives None (and rx_fut completes) if no
\* sender is left, and waits otherwise.  The join completes when both
\* futures have.
MessagePassingPoll ==
    /\ mp_pc = "ready"
    /\ LET sleep_over == tx_pc = "sleeping" /\ mp_clock >= tx_due
           idx == IF sleep_over THEN tx_idx + 1 ELSE tx_idx
           sends == tx_pc = "start" \/ (sleep_over /\ idx <= Len(Vals))
           tx_done == tx_pc = "done" \/ (sleep_over /\ idx > Len(Vals))
           senders == IF tx_pc # "done" /\ tx_done
                      THEN senders_after_tx_fut(mp_moved) ELSE mp_senders
           channel == IF sends THEN Append(mp_channel, Vals[idx]) ELSE mp_channel
           rx_done == rx_pc = "done" \/ senders = 0
       IN  /\ tx_idx' = idx
           /\ tx_pc' = IF tx_done THEN "done" ELSE "sleeping"
           /\ tx_due' = IF sends THEN mp_clock + SleepMillis ELSE tx_due
           /\ mp_senders' = senders
           /\ mp_channel' = IF rx_pc = "done" THEN channel ELSE <<>>
           /\ mp_received' = IF rx_pc = "done" THEN mp_received
                             ELSE mp_received \o channel
           /\ rx_pc' = IF rx_done THEN "done" ELSE "recv"
           /\ rx_waiting' = ~rx_done
           /\ mp_pc' = IF tx_done /\ rx_done THEN "done"
                       ELSE IF sends /\ rx_waiting THEN "ready"
                       ELSE "pending"
    /\ UNCHANGED <<mp_moved, mp_clock>>
    /\ UNCHANGED notMpVars

\* A millisecond passes while the task is pending; the timer wakes the task
\* when tx_fut's sleep is due.
MessagePassingTick ==
    /\ mp_pc = "pending"
    /\ mp_clock < MaxClock
    /\ mp_clock' = mp_clock + 1
    /\ mp_pc' = IF tx_pc = "sleeping" /\ mp_clock + 1 >= tx_due
                THEN "ready" ELSE "pending"
    /\ UNCHANGED <<mp_moved, tx_pc, tx_idx, tx_due, mp_senders, mp_channel, rx_pc,
                   rx_waiting, mp_received>>
    /\ UNCHANGED notMpVars

NextMessagePassing == MessagePassingPoll \/ MessagePassingTick

SpecMessagePassing3 == InitMessagePassing3 /\ [][NextMessagePassing]_vars

(***************************************************************************)
(* chapter-15/src/lib.rs: LimitTracker.  A usize has 64 bits (on a 64-bit   *)
(* target) and an f64 a significand of 53 bits, beyond 32-bit integers: a  *)
(* natural number is the sequence of its digits in base 2^15, most         *)
(* significant first and without a leading zero (zero is the empty         *)
(* sequence).                                                              *)
(***************************************************************************)
\* f64::MANTISSA_DIGITS
F64Digits == 53

\* The bits of a digit and the base of the digits.
LimbBits == 15
Base == 2^LimbBits

RECURSIVE Strip(_)
Strip(x) == IF x # <<>> /\ Head(x) = 0 THEN Strip(Tail(x)) ELSE x

Zeros(n) == [i \in 1..n |-> 0]

\* x with zeros in front, up to n digits.
PadLeft(x, n) == Zeros(n - Len(x)) \o x

RECURSIVE LexLess(_, _)
LexLess(x, y) ==
    IF x = <<>> THEN FALSE
    ELSE IF Head(x) # Head(y) THEN Head(x) < Head(y)
    ELSE LexLess(Tail(x), Tail(y))

\* x < y and x <= y
NatLess(x, y) == Len(x) < Len(y) \/ (Len(x) = Len(y) /\ LexLess(x, y))
NatLe(x, y) == ~NatLess(y, x)

\* The digits 1..i of x + y and the carry in front, for two sequences of
\* the same length and a carry c into digit i.
RECURSIVE AddAt(_, _, _, _)
AddAt(x, y, i, c) ==
    IF i = 0 THEN <<c>>
    ELSE IF x[i] + y[i] + c >= Base
         THEN Append(AddAt(x, y, i - 1, 1), x[i] + y[i] + c - Base)
         ELSE Append(AddAt(x, y, i - 1, 0), x[i] + y[i] + c)

NatAdd(x, y) ==
    LET n == IF Len(x) >= Len(y) THEN Len(x) ELSE Len(y)
    IN  Strip(AddAt(PadLeft(x, n), PadLeft(y, n), n, 0))

\* The digits 1..i of x - y for two sequences of the same length, x >= y,
\* and a borrow b from digit i.
RECURSIVE SubAt(_, _, _, _)
SubAt(x, y, i, b) ==
    IF i = 0 THEN <<>>
    ELSE IF x[i] - y[i] - b < 0
         THEN Append(SubAt(x, y, i - 1, 1), x[i] - y[i] - b + Base)
         ELSE Append(SubAt(x, y, i - 1, 0), x[i] - y[i] - b)

\* x - y, for x >= y
NatSub(x, y) == Strip(SubAt(x, PadLeft(y, Len(x)), Len(x), 0))

\* The digits 1..i of k * x and the carry in front, for 0 <= k < Base.
RECURSIVE TimesAt(_, _, _, _)
TimesAt(k, x, i, c) ==
    IF i = 0 THEN <<c>>
    ELSE Append(TimesAt(k, x, i - 1, (k * x[i] + c) \div Base),
                (k * x[i] + c) % Base)

\* k * x, for 0 <= k < Base
Times(k, x) == Strip(TimesAt(k, x, Len(x), 0))

\* x divided by k, for 0 < k < Base: the digits from i on, given the
\* remainder r of the digits before i.
RECURSIVE DivSmallAt(_, _, _, _)
DivSmallAt(x, k, i, r) ==
    IF i > Len(x) THEN <<>>
    ELSE <<(r * Base + x[i]) \div k>>
         \o DivSmallAt(x, k, i + 1, (r * Base + x[i]) % k)

DivSmall(x, k) == Strip(DivSmallAt(x, k, 1, 0))

\* An integer below Base^2 as a natural number.
NatOf(n) == Strip(<<n \div Base, n % Base>>)

\* The number written in decimal, given by its groups of four digits.
RECURSIVE Decimal(_)
Decimal(groups) ==
    IF groups = <<>> THEN <<>>
    ELSE NatAdd(Times(10000, Decimal(SubSeq(groups, 1, Len(groups) - 1))),
                NatOf(groups[Len(groups)]))

\* The number of bits of x.
BitLength(x) ==
    IF x = <<>> THEN 0
    ELSE LimbBits * (Len(x) - 1)
         + (CHOOSE k \in 1..LimbBits : 2^(k - 1) <= x[1] /\ x[1] < 2^k)

\* x * 2^k and x divided by 2^k
TimesPow2(x, k) == Strip(Times(2^(k % LimbBits), x) \o Zeros(k \div LimbBits))
DivPow2(x, k) ==
    IF Len(x) <= k \div LimbBits THEN <<>>
    ELSE DivSmall(SubSeq(x, 1, Len(x) - (k \div LimbBits)), 2^(k % LimbBits))

\* An f64 that is not negative: zero, a finite number mant * 2^exp with a
\* significand of exactly F64Digits bits, infinity or NaN.
ZeroF64 == [kind |-> "zero", mant |-> <<>>, exp |-> 0]
InfF64 == [kind |-> "inf", mant |-> <<>>, exp |-> 0]
NaNF64 == [kind |-> "nan", mant |-> <<>>, exp |-> 0]

\* x * 2^exp (plus a nonzero rest below x's last bit when sticky), rounded
\* to F64Digits bits: to nearest, and on a tie to the even significand.
\* x is not zero.
RoundF64(x, sticky, exp) ==
    LET len == BitLength(x)
        drop == len - F64Digits
    IN  IF drop <= 0
        THEN [kind |-> "finite", mant |-> TimesPow2(x, -drop), exp |-> exp + drop]
        ELSE LET kept == DivPow2(x, drop)
                 rest == NatSub(x, TimesPow2(kept, drop))
                 half == TimesPow2(<<1>>, drop - 1)
                 up == \/ NatLess(half, rest)
                       \/ rest = half /\ (sticky \/ kept[Len(kept)] % 2 = 1)
                 rounded == IF up THEN NatAdd(kept, <<1>>) ELSE kept
             IN  IF BitLength(rounded) > F64Digits
                 THEN [kind |-> "finite", mant |-> DivPow2(rounded, 1),
                       exp |-> exp + drop + 1]
                 ELSE [kind |-> "finite", mant |-> rounded, exp |-> exp + drop]

\* `n as f64` for a usize n
AsF64(n) == IF n = <<>> THEN ZeroF64 ELSE RoundF64(n, FALSE, 0)

\* The next k bits of rem / d after the binary point, as a number, and the
\* remainder left, for rem < d and k <= LimbBits.
RECURSIVE DivBits(_, _, _)
DivBits(rem, d, k) ==
    IF k = 0 THEN [digit |-> 0, rem |-> rem]
    ELSE IF NatLe(d, Times(2, rem))
         THEN LET rest == DivBits(NatSub(Times(2, rem), d), d, k - 1)
              IN  [digit |-> 2^(k - 1) + rest.digit, rem |-> rest.rem]
         ELSE DivBits(Times(2, rem), d, k - 1)

\* The next n digits of rem / d after the point, and whether a remainder
\* is left, for rem < d.
RECURSIVE DivDigits(_, _, _)
DivDigits(rem, d, n) ==
    IF n = 0 THEN [digits |-> <<>>, sticky |-> rem # <<>>]
    ELSE LET first == DivBits(rem, d, LimbBits)
             rest == DivDigits(first.rem, d, n - 1)
         IN  [digits |-> <<first.digit>> \o rest.digits, sticky |-> rest.sticky]

\* How many digits after the point give F64Digits + 2 bits or more.
QuotientDigits == (F64Digits + 1) \div LimbBits + 1

\* a / b in f64: 0/0 is NaN, x/0 is infinity; the quotient of two finite
\* numbers is the exact quotient of the significands (which lies between
\* 1/2 and 2), taken to QuotientDigits digits after the point with a sticky
\* bit, and rounded.
DivF64(a, b) ==
    IF a.kind = "nan" \/ b.kind = "nan" THEN NaNF64
    ELSE IF b.kind = "zero" THEN (IF a.kind = "zero" THEN NaNF64 ELSE InfF64)
    ELSE IF a.kind = "zero" THEN ZeroF64
    ELSE LET ge == NatLe(b.mant, a.mant)
             rem == IF ge THEN NatSub(a.mant, b.mant) ELSE a.mant
             q == DivDigits(rem, b.mant, QuotientDigits)
         IN  RoundF64(Strip(<<IF ge THEN 1 ELSE 0>> \o q.digits), q.sticky,
                      a.exp - b.exp - QuotientDigits * LimbBits)

\* x >= y in f64, for y finite and positive: false for NaN.
GeF64(x, y) ==
    CASE x.kind = "nan" -> FALSE
      [] x.kind = "zero" -> FALSE
      [] x.kind = "inf" -> TRUE
      [] OTHER -> \/ x.exp > y.exp
                  \/ x.exp = y.exp /\ NatLe(y.mant, x.mant)

\* The f64 literals of set_value: the f64 nearest to the decimal written.
One == DivF64(AsF64(NatOf(1)), AsF64(NatOf(1)))
NineTenths == DivF64(AsF64(NatOf(9)), AsF64(NatOf(10)))
ThreeQuarters == DivF64(AsF64(NatOf(75)), AsF64(NatOf(100)))

\* The messages of set_value.
OverQuota == "Error: You are over your quota!"
Over90 == "Urgent warning: You've used up over 90% of your quota!"
Over75 == "Warning: You've used up over 75% of your quota!"

\* The values of max given to LimitTracker::new.
MaxPool ==
    {NatOf(0), NatOf(1), NatOf(4), NatOf(10), NatOf(100),
     Decimal(<<9007, 1992, 5474, 993>>),
     Decimal(<<406, 8034, 1415, 3822, 1168>>),
     Decimal(<<857, 4900, 8962, 1914, 1126>>),
     Decimal(<<1844, 6744, 737, 955, 1615>>)}

\* The values given to set_value.
ValuePool ==
    {NatOf(0), NatOf(1), NatOf(3), NatOf(9), NatOf(74), NatOf(75), NatOf(80), NatOf(89),
     NatOf(90), NatOf(99), NatOf(100), NatOf(101),
     Decimal(<<9007, 1992, 5474, 992>>),
     Decimal(<<366, 1230, 7273, 8439, 9051>>),
     Decimal(<<643, 1175, 6721, 6435, 5844>>),
     Decimal(<<1844, 6744, 737, 955, 1615>>)}

\* set_value's messages for a tracker with the given max: what it sends
\* after self.value = value.
set_value(max, value) ==
    LET percentage_of_max == DivF64(AsF64(value), AsF64(max))
    IN  IF GeF64(percentage_of_max, One) THEN <<OverQuota>>
        ELSE IF GeF64(percentage_of_max, NineTenths) THEN <<Over90>>
        ELSE IF GeF64(percentage_of_max, ThreeQuarters) THEN <<Over75>>
        ELSE <<>>

\* LimitTracker::new(&mock_messenger, max)
InitTracker ==
    /\ lt_pc = "new"
    /\ lt_max \in MaxPool
    /\ lt_value = NatOf(0)
    /\ sent_messages = <<>>
    /\ SearchIdle /\ MainIdle /\ C1Idle /\ C2Idle /\ C3Idle /\ GuessIdle /\ MixIdle /\ TimeoutIdle /\ ShareIdle /\ JoinIdle /\ UsingIdle /\ QuizIdle /\ MpIdle /\ V3Idle /\ TreeIdle /\ CloneIdle

\* limit_tracker.set_value(value)
SetValue ==
    /\ lt_pc = "new"
    /\ \E value \in ValuePool :
          /\ lt_value' = value
          /\ sent_messages' = sent_messages \o set_value(lt_max, value)
    /\ lt_pc' = "set"
    /\ UNCHANGED lt_max
    /\ UNCHANGED notTrackerVars

NextTracker == SetValue

SpecTracker == InitTracker /\ [][NextTracker]_vars

(***************************************************************************)
(* chapter-17/concurrency_with_async/src/main.rs, message_passing_4: the   *)
(* same task with tx_fut an `async move` block, which owns tx.  The        *)
(* executor polls a task that was woken and the timer's clock advances:    *)
(* both steps are weakly fair.                                             *)
(***************************************************************************)
InitMessagePassing4 ==
    /\ mp_moved = TRUE
    /\ mp_clock = 0
    /\ mp_pc = "ready"
    /\ tx_pc = "start"
    /\ tx_idx = 1
    /\ tx_due = 0
    /\ mp_senders = 1
    /\ mp_channel = <<>>
    /\ rx_pc = "recv"
    /\ rx_waiting = FALSE
    /\ mp_received = <<>>
    /\ SearchIdle /\ MainIdle /\ C1Idle /\ C2Idle /\ C3Idle /\ GuessIdle /\ MixIdle /\ TimeoutIdle /\ ShareIdle /\ JoinIdle /\ UsingIdle /\ QuizIdle /\ TrackerIdle /\ V3Idle /\ TreeIdle /\ CloneIdle

SpecMessagePassing4 ==
    /\ InitMessagePassing4
    /\ [][NextMessagePassing]_vars
    /\ WF_vars(MessagePassingPoll)
    /\ WF_vars(MessagePassingTick)

(***************************************************************************)
(* chapter-17/concurrency_with_async/src/main.rs, version_3: one task      *)
(* polls trpl::join(fut1, fut2).  A poll of the join polls each future     *)
(* that is not complete, in the order of the arguments; a future whose     *)
(* sleep is over (or that starts) prints its next number and sleeps again, *)
(* or completes when its range is exhausted.  A poll takes time: each      *)
(* future is polled up to MaxLate ms after the task was woken, the second  *)
(* no earlier than the first, and a sleep's deadline counts from the       *)
(* moment its future is polled.                                            *)
(***************************************************************************)
MaxLate == 1

\* the ends of the ranges 1..10 and 1..5
RangeEnd == <<10, 5>>

TaskName == <<"first", "second">>

\* trpl::join polls its second argument first.
join_poll_order_reversed == <<2, 1>>

\* The order in which trpl::join(fut1, fut2) polls the futures.
join_poll_order == <<1, 2>>

InitVersion3 ==
    /\ v3_clock = 0
    /\ v3_pc = "ready"
    /\ fut_pc = <<"start", "start">>
    /\ fut_i = <<0, 0>>
    /\ fut_due = <<0, 0>>
    /\ v3_stdout = <<>>
    /\ SearchIdle /\ MainIdle /\ C1Idle /\ C2Idle /\ C3Idle /\ GuessIdle /\ MixIdle /\ TimeoutIdle /\ ShareIdle /\ JoinIdle /\ UsingIdle /\ QuizIdle /\ TrackerIdle /\ MpIdle /\ TreeIdle /\ CloneIdle

\* Whether future f, polled at time now, advances: it starts, or its sleep
\* is over.
FutAdvances(f, now) ==
    \/ fut_pc[f] = "start"
    \/ fut_pc[f] = "sleeping" /\ now >= fut_due[f]

\* The loop's next i, and whether the range holds it.
FutNextI(f) == fut_i[f] + 1
FutPrints(f, now) == FutAdvances(f, now) /\ FutNextI(f) < RangeEnd[f]
FutLine(f, now) ==
    IF FutPrints(f, now)
    THEN <<[task |-> TaskName[f], i |-> FutNextI(f)]>> ELSE <<>>

\* One poll of the join; it ends when the second future was polled.  The
\* timer wakes the task again if a sleep fell due meanwhile.
Version3Poll ==
    /\ v3_pc = "ready"
    /\ \E late \in [1..2 -> 0..MaxLate] :
          /\ late[1] <= late[2]
          /\ LET first == join_poll_order[1]
                 second == join_poll_order[2]
                 at == [f \in 1..2 |->
                          v3_clock + (IF f = first THEN late[1] ELSE late[2])]
                 pcOf == [f \in 1..2 |->
                            IF ~FutAdvances(f, at[f]) THEN fut_pc[f]
                            ELSE IF FutPrints(f, at[f]) THEN "sleeping"
                            ELSE "done"]
                 dueOf == [f \in 1..2 |->
                             IF FutPrints(f, at[f]) THEN at[f] + SleepMillis
                             ELSE fut_due[f]]
             IN  /\ fut_pc' = pcOf
                 /\ fut_i' = [f \in 1..2 |->
                                IF FutPrints(f, at[f]) THEN FutNextI(f)
                                ELSE fut_i[f]]
                 /\ fut_due' = dueOf
                 /\ v3_stdout' = v3_stdout \o FutLine(first, at[first])
                                           \o FutLine(second, at[second])
                 /\ v3_clock' = v3_clock + late[2]
                 /\ v3_pc' = IF \A f \in 1..2 : pcOf[f] = "done" THEN "done"
                             ELSE IF \E f \in 1..2 :
                                        /\ pcOf[f] = "sleeping"
                                        /\ v3_clock + late[2] >= dueOf[f]
                                  THEN "ready"
                             ELSE "pending"
    /\ UNCHANGED notV3Vars

\* A millisecond passes while the task is pending; the timer wakes the task
\* when a sleep is due.
Version3Tick ==
    /\ v3_pc = "pending"
    /\ v3_clock' = v3_clock + 1
    /\ v3_pc' = IF \E f \in 1..2 :
                      fut_pc[f] = "sleeping" /\ v3_clock + 1 >= fut_due[f]
                THEN "ready" ELSE "pending"
    /\ UNCHANGED <<fut_pc, fut_i, fut_due, v3_stdout>>
    /\ UNCHANGED notV3Vars

NextVersion3 == Version3Poll \/ Version3Tick

SpecVersion3 == InitVersion3 /\ [][NextVersion3]_vars

(***************************************************************************)
(* chapter-15/src/tree.rs.  Rc::new takes any free address of the heap.    *)
(* An allocation counts its Rc pointers (strong) and its Weak pointers     *)
(* (weak); its Node is dropped when strong reaches 0 and the allocation is *)
(* freed when no Weak is left either.  A Node's parent is the address its  *)
(* Weak points to, 0 for Weak::new(), which points to nothing.             *)
(***************************************************************************)
MaxAddrs == 5

Addrs == 1..MaxAddrs

FreeCell ==
    [state |-> "free", strong |-> 0, weak |-> 0, value |-> 0, parent |-> 0,
     children |-> <<>>]

\* Rc::new(Node { value, parent: RefCell::new(Weak::new()), children }) at
\* address a
Rc_new(h, a, value, children) ==
    [h EXCEPT ![a] = [state |-> "live", strong |-> 1, weak |-> 0,
                      value |-> value, parent |-> 0, children |-> children]]

\* Rc::clone(&rc)
Rc_clone(h, a) == [h EXCEPT ![a].strong = @ + 1]

\* A downgrade that gives an owning pointer.
Rc_downgrade_owning(h, a) == [h EXCEPT ![a].strong = @ + 1]

\* Rc::downgrade(&rc)
Rc_downgrade(h, a) == [h EXCEPT ![a].weak = @ + 1]

\* Rc::strong_count and Rc::weak_count
Rc_strong_count(h, a) == h[a].strong
Rc_weak_count(h, a) == h[a].weak

\* Weak::upgrade: the address of the Node if it was not dropped, else None
\* (written 0).
Weak_upgrade(h, a) == IF a # 0 /\ h[a].strong > 0 THEN a ELSE 0

\* Dropping a Weak that points to a.
DropWeak(h, a) ==
    IF a = 0 THEN h
    ELSE IF h[a].weak = 1 /\ h[a].strong = 0 THEN [h EXCEPT ![a] = FreeCell]
    ELSE [h EXCEPT ![a].weak = @ - 1]

\* Dropping an Rc that points to a: the last one drops the Node, that is
\* its parent and its children, and frees the allocation unless a Weak
\* points to it.
RECURSIVE DropRc(_, _)
RECURSIVE DropRcs(_, _)
DropRc(h, a) ==
    IF h[a].strong > 1 THEN [h EXCEPT ![a].strong = @ - 1]
    ELSE LET dropped ==
                 [h EXCEPT ![a] =
                     IF h[a].weak = 0 THEN FreeCell
                     ELSE [FreeCell EXCEPT !.state = "dropped",
                                           !.weak = h[a].weak]]
         IN  DropRcs(DropWeak(dropped, h[a].parent), h[a].children)

DropRcs(h, rcs) ==
    IF rcs = <<>> THEN h ELSE DropRcs(DropRc(h, Head(rcs)), Tail(rcs))

CountLine(name, h, a) ==
    [name |-> name, strong |-> Rc_strong_count(h, a),
     weak |-> Rc_weak_count(h, a)]

InitTree ==
    /\ heap = [a \in Addrs |-> FreeCell]
    /\ leaf = 0
    /\ branch = 0
    /\ tree_pc = "start"
    /\ tree_stdout = <<>>
    /\ SearchIdle /\ MainIdle /\ C1Idle /\ C2Idle /\ C3Idle /\ GuessIdle /\ MixIdle /\ TimeoutIdle /\ ShareIdle /\ JoinIdle /\ UsingIdle /\ QuizIdle /\ TrackerIdle /\ MpIdle /\ V3Idle /\ CloneIdle

\* let leaf = Rc::new(Node { value: 3, .. })
TreeNewLeaf ==
    /\ tree_pc = "start"
    /\ \E a \in Addrs :
          /\ heap[a].state = "free"
          /\ heap' = Rc_new(heap, a, 3, <<>>)
          /\ leaf' = a
    /\ tree_pc' = "leaf_created"
    /\ UNCHANGED <<branch, tree_stdout>>
    /\ UNCHANGED notTreeVars

\* the println! of the counts of leaf: before, inside and after the scope
TreePrintLeaf ==
    /\ tree_pc \in {"leaf_created", "branch_printed", "parent_printed"}
    /\ tree_stdout' = Append(tree_stdout, CountLine("leaf", heap, leaf))
    /\ tree_pc' = CASE tree_pc = "leaf_created" -> "scope"
                    [] tree_pc = "branch_printed" -> "scope_end"
                    [] tree_pc = "parent_printed" -> "main_end"
    /\ UNCHANGED <<heap, leaf, branch>>
    /\ UNCHANGED notTreeVars

\* let branch = Rc::new(Node { value: 5, children: vec![Rc::clone(&leaf)] })
TreeNewBranch ==
    /\ tree_pc = "scope"
    /\ \E b \in Addrs :
          /\ heap[b].state = "free"
          /\ heap' = Rc_new(Rc_clone(heap, leaf), b, 5, <<leaf>>)
          /\ branch' = b
    /\ tree_pc' = "branch_created"
    /\ UNCHANGED <<leaf, tree_stdout>>
    /\ UNCHANGED notTreeVars

\* *leaf.parent.borrow_mut() = Rc::downgrade(&branch): the Weak that parent
\* held is dropped.
TreeSetParent ==
    /\ tree_pc = "branch_created"
    /\ heap' = [DropWeak(Rc_downgrade(heap, branch), heap[leaf].parent)
                    EXCEPT ![leaf].parent = branch]
    /\ tree_pc' = "parent_set"
    /\ UNCHANGED <<leaf, branch, tree_stdout>>
    /\ UNCHANGED notTreeVars

\* the println! of the counts of branch
TreePrintBranch ==
    /\ tree_pc = "parent_set"
    /\ tree_stdout' = Append(tree_stdout, CountLine("branch", heap, branch))
    /\ tree_pc' = "branch_printed"
    /\ UNCHANGED <<heap, leaf, branch>>
    /\ UNCHANGED notTreeVars

\* the end of the inner scope: branch is dropped
TreeScopeEnd ==
    /\ tree_pc = "scope_end"
    /\ heap' = DropRc(heap, branch)
    /\ branch' = 0
    /\ tree_pc' = "after_scope"
    /\ UNCHANGED <<leaf, tree_stdout>>
    /\ UNCHANGED notTreeVars

\* println!("leaf parent = {:?}", leaf.parent.borrow().upgrade()): the Rc
\* that upgrade may give is dropped after the line is printed.
TreePrintParent ==
    /\ tree_pc = "after_scope"
    /\ tree_stdout' = Append(tree_stdout,
                             [name |-> "leaf parent",
                              parent |-> Weak_upgrade(heap, heap[leaf].parent)])
    /\ tree_pc' = "parent_printed"
    /\ UNCHANGED <<heap, leaf, branch>>
    /\ UNCHANGED notTreeVars

\* the end of main: leaf is dropped
TreeMainEnd ==
    /\ tree_pc = "main_end"
    /\ heap' = DropRc(heap, leaf)
    /\ leaf' = 0
    /\ tree_pc' = "returned"
    /\ UNCHANGED <<branch, tree_stdout>>
    /\ UNCHANGED notTreeVars

NextTree ==
    \/ TreeNewLeaf
    \/ TreePrintLeaf
    \/ TreeNewBranch
    \/ TreeSetParent
    \/ TreePrintBranch
    \/ TreeScopeEnd
    \/ TreePrintParent
    \/ TreeMainEnd

SpecTree == InitTree /\ [][NextTree]_vars

(***************************************************************************)
(* chapter-16/src/lib.rs, cloning_producer_for_multiple_producers: the     *)
(* main thread and the two threads it spawns, each step of a thread one    *)
(* action.  The first thread owns tx1, the second tx; a thread drops its   *)
(* Sender when its closure returns.  mpsc::channel is an unbounded queue:  *)
(* send never blocks, and the receiver's iterator blocks while the queue   *)
(* is empty and a Sender exists.                                           *)
(***************************************************************************)
Producers == 1..2

\* vals of the first and of the second spawned thread
ProducerVals ==
    << <<"hi", "from", "the", "thread">>, <<"more", "messages", "for", "you">> >>

\* An iterator that ends as soon as no Sender is left.
recv_none_when_disconnected(senders, channel) == senders = 0

\* Whether rx's iterator ends (recv gives Err): the channel is empty and
\* every Sender was dropped.
recv_none(senders, channel) == senders = 0 /\ channel = <<>>

\* let (tx, rx) = mpsc::channel()
InitCloning ==
    /\ cl_pc = "channel"
    /\ producer_pc = [p \in Producers |-> "unspawned"]
    /\ producer_idx = [p \in Producers |-> 1]
    /\ cl_senders = 1
    /\ cl_channel = <<>>
    /\ cl_received = <<>>
    /\ SearchIdle /\ MainIdle /\ C1Idle /\ C2Idle /\ C3Idle /\ GuessIdle /\ MixIdle /\ TimeoutIdle /\ ShareIdle /\ JoinIdle /\ UsingIdle /\ QuizIdle /\ TrackerIdle /\ MpIdle /\ V3Idle /\ TreeIdle

\* let tx1 = tx.clone()
CloningClone ==
    /\ cl_pc = "channel"
    /\ cl_senders' = cl_senders + 1
    /\ cl_pc' = "cloned"
    /\ UNCHANGED <<producer_pc, producer_idx, cl_channel, cl_received>>
    /\ UNCHANGED notCloneVars

\* thread::spawn(move || ..), the first with tx1 and then the second with tx
CloningSpawn ==
    /\ cl_pc \in {"cloned", "spawned1"}
    /\ LET p == IF cl_pc = "cloned" THEN 1 ELSE 2
       IN  producer_pc' = [producer_pc EXCEPT ![p] = "send"]
    /\ cl_pc' = IF cl_pc = "cloned" THEN "spawned1" ELSE "recv"
    /\ UNCHANGED <<producer_idx, cl_senders, cl_channel, cl_received>>
    /\ UNCHANGED notCloneVars

\* tx.send(val).unwrap() in thread p
ProducerSend(p) ==
    /\ producer_pc[p] = "send"
    /\ cl_channel' = Append(cl_channel, ProducerVals[p][producer_idx[p]])
    /\ producer_pc' = [producer_pc EXCEPT ![p] = "sleep"]
    /\ UNCHANGED <<cl_pc, producer_idx, cl_senders, cl_received>>
    /\ UNCHANGED notCloneVars

\* thread::sleep is over in thread p: the loop takes the next val, or the
\* closure returns and drops the thread's Sender.
ProducerWake(p) ==
    /\ producer_pc[p] = "sleep"
    /\ IF producer_idx[p] < Len(ProducerVals[p])
       THEN /\ producer_idx' = [producer_idx EXCEPT ![p] = @ + 1]
            /\ producer_pc' = [producer_pc EXCEPT ![p] = "send"]
            /\ UNCHANGED cl_senders
       ELSE /\ producer_pc' = [producer_pc EXCEPT ![p] = "finished"]
            /\ cl_senders' = cl_senders - 1
            /\ UNCHANGED producer_idx
    /\ UNCHANGED <<cl_pc, cl_channel, cl_received>>
    /\ UNCHANGED notCloneVars

\* for received in rx { println!("Got: {received}") }: one iteration
CloningRecv ==
    /\ cl_pc = "recv"
    /\ cl_channel # <<>>
    /\ cl_received' = Append(cl_received, Head(cl_channel))
    /\ cl_channel' = Tail(cl_channel)
    /\ UNCHANGED <<cl_pc, producer_pc, producer_idx, cl_senders>>
    /\ UNCHANGED notCloneVars

\* the iterator ends and the function returns
CloningReturn ==
    /\ cl_pc = "recv"
    /\ recv_none(cl_senders, cl_channel)
    /\ cl_pc' = "returned"
    /\ UNCHANGED <<producer_pc, producer_idx, cl_senders, cl_channel, cl_received>>
    /\ UNCHANGED notCloneVars

CloningMain == CloningClone \/ CloningSpawn \/ CloningRecv \/ CloningReturn

Producer(p) == ProducerSend(p) \/ ProducerWake(p)

NextCloning == CloningMain \/ \E p \in Producers : Producer(p)

\* Every thread that can run does run: the scheduler starves no thread and
\* a sleep ends.
SpecCloning ==
    /\ InitCloning
    /\ [][NextCloning]_vars
    /\ WF_vars(CloningMain)
    /\ \A p \in Producers : WF_vars(Producer(p))

(***************************************************************************)
(* The lines of a string, stated by positions: a line starts at position 1 *)
(* or right after a line feed, and runs up to the next line feed (or the   *)
(* end of the string); a carriage return right before that line feed is    *)
(* part of the line ending.                                                *)
(***************************************************************************)
LineStarts(c) == {s \in 1..Len(c) : s = 1 \/ c[s - 1] = "\n"}

LineStop(c, s) ==
    LET feeds == {i \in s..Len(c) : c[i] = "\n"} IN
    IF feeds = {} THEN Len(c) + 1
    ELSE CHOOSE i \in feeds : \A j \in feeds : i <= j

LineText(c, s) ==
    LET e == LineStop(c, s)
        crlf == e <= Len(c) /\ e > s /\ c[e - 1] = "\r"
    IN  SubSeq(c, s, IF crlf THEN e - 2 ELSE e - 1)

\* q occurs in line, character by character.
Occurs(line, q) ==
    \E i \in 1..(Len(line) + 1) :
        /\ i + Len(q) - 1 <= Len(line)
        /\ \A j \in 1..Len(q) : line[i + j - 1] = q[j]

\* q occurs in line when the letter case is ignored.
OccursIgnoringCase(line, q) ==
    \E i \in 1..(Len(line) + 1) :
        /\ i + Len(q) - 1 <= Len(line)
        /\ \A j \in 1..Len(q) : ToLowerChar(line[i + j - 1]) = ToLowerChar(q[j])

\* res lists the lines of c that start at the positions of M, once each, in
\* the order of their positions.
ListsLinesAt(res, c, M) ==
    /\ Len(res) = Cardinality(M)
    /\ \A s \in M : res[Cardinality({t \in M : t <= s})] = LineText(c, s)

\* C1: search(query, contents) returns exactly the lines of contents that
\* contain query as a case-sensitive substring, each once and in the order of
\* contents; a line that contains the query only in another letter case is
\* not returned.
C1_SearchCaseSensitive ==
    search_fn = "search" =>
        /\ ListsLinesAt(results, contents,
                {s \in LineStarts(contents) : Occurs(LineText(contents, s), query)})
        /\ \A k \in 1..Len(results) : Occurs(results[k], query)

\* A call of search where one line has the query only in another letter case
\* and is left out, while another line is returned.
C1_Witness ==
    /\ search_fn = "search"
    /\ results # <<>>
    /\ \E s \in LineStarts(contents) :
          /\ OccursIgnoringCase(LineText(contents, s), query)
          /\ ~Occurs(LineText(contents, s), query)
          /\ \A k \in 1..Len(results) : results[k] # LineText(contents, s)

\* C2: search_case_insensitive(query, contents) returns exactly the lines of
\* contents whose lowercased text contains the lowercased query, in the order
\* of contents, and returns them as they are in contents, not lowercased.
C2_SearchCaseInsensitive ==
    search_fn = "search_case_insensitive" =>
        ListsLinesAt(results, contents,
            {s \in LineStarts(contents) :
                OccursIgnoringCase(LineText(contents, s), query)})

\* A call of search_case_insensitive with a query that is not lowercase, which
\* returns a line that is not lowercase and leaves another line out.
C2_Witness ==
    /\ search_fn = "search_case_insensitive"
    /\ query # ToLowercase(query)
    /\ \E k \in 1..Len(results) : results[k] # ToLowercase(results[k])
    /\ Len(results) < Cardinality(LineStarts(contents))

C4_ConfigBuild ==
    build_result.state # "none" =>
        IF Len(args) < 2
        THEN build_result.state = "err"
             /\ build_result.err = "Didn't get a query string"
        ELSE IF Len(args) = 2
        THEN build_result.state = "err"
             /\ build_result.err = "Didn't get a file path"
        ELSE /\ build_result.state = "ok"
             /\ build_result.config.query = args[2]
             /\ build_result.config.file_path = args[3]
             /\ config = build_result.config

\* Config::build succeeded on four arguments, the last of which differs from
\* the file path and the first from the query.
C4_Witness ==
    /\ build_result.state = "ok"
    /\ Len(args) = 4
    /\ args[1] # args[2]
    /\ args[4] # args[3]
    /\ config.file_path = args[3]

\* The lines printed by main before it calls run.
MainHeader(cfg) ==
    << <<"Searching for ">> \o cfg.query, <<"In file ">> \o cfg.file_path >>

\* C5: ignore_case is true if and only if IGNORE_CASE is set, whatever its
\* value, and run prints the lines of search_case_insensitive when
\* ignore_case is true and of search when it is false, one per output line in
\* the order of the file.
C5_IgnoreCaseIffSet ==
    /\ build_result.state = "ok" =>
          (config.ignore_case <=> env_ignore_case.set)
    /\ (pc = "exited" /\ run_result.state = "ok") =>
          stdout = MainHeader(config) \o
                   (IF env_ignore_case.set
                    THEN search_case_insensitive(config.query,
                                                 fs[config.file_path].data)
                    ELSE search(config.query, fs[config.file_path].data))

\* The number of elements of v that are equal to x, and that are below x.
CountEqual(v, x) == Cardinality({i \in 1..Len(v) : v[i] = x})

CountBelow(v, x) == Cardinality({i \in 1..Len(v) : v[i] < x})

\* The k-th smallest element of v (k in 1..Len(v)), by counting.
KthSmallest(v, k) ==
    CHOOSE x \in {v[i] : i \in 1..Len(v)} :
        /\ CountBelow(v, x) < k
        /\ k <= CountBelow(v, x) + CountEqual(v, x)

\* The f32 that equals whole + half/2 exactly, if there is one.
ExactF32(whole, half) ==
    IF half = 1
    THEN IF -(2 ^ (F32Digits - 1)) <= whole /\ whole < 2 ^ (F32Digits - 1)
         THEN {[mant |-> 2 * whole + 1, exp |-> -1]}
         ELSE {}
    ELSE LET n == NormalF32(whole, 0) IN
         IF -(2 ^ F32Digits) < n.mant /\ n.mant < 2 ^ F32Digits
         THEN {n} ELSE {}

\* The median of v, a non-empty list: the f32 equal to the middle value of
\* the sorted list, or to the mean of its two middle values.
ExactMedian(v) ==
    LET n == Len(v) IN
    IF n % 2 = 1 THEN ExactF32(KthSmallest(v, (n + 1) \div 2), 0)
    ELSE LET a == KthSmallest(v, n \div 2)
             b == KthSmallest(v, n \div 2 + 1)
             carry == (a % 2) + (b % 2)
         IN  ExactF32((a \div 2) + (b \div 2) + (carry \div 2), carry % 2)

\* C6: for every non-empty list, challenge_1 returns as median the middle
\* value of the sorted list (odd length) or the mean of the two middle values
\* (even length).
C6_Median ==
    (vec # <<>> /\ c1_pc \in {"returned", "panicked"}) =>
        /\ c1_pc = "returned"
        /\ c1_result.median \in ExactMedian(vec)

\* The highest number of occurrences of a value of v.
MaxCount(v) ==
    LET counts == {CountEqual(v, v[i]) : i \in 1..Len(v)}
    IN  CHOOSE c \in counts : \A d \in counts : d <= c

\* mode is what the claim asks for the list v.
IsModeOf(mode, v) ==
    IF MaxCount(v) >= 2
    THEN mode.some /\ CountEqual(v, mode.value) = MaxCount(v)
    ELSE ~mode.some

\* C7: for every non-empty list, challenge_1 returns as mode Some(v) with v a
\* value of the highest number of occurrences when that number is at least
\* 2, and None when no value occurs more than once.
C7_Mode ==
    (vec # <<>> /\ c1_pc \in {"returned", "panicked"}) =>
        /\ c1_pc = "returned"
        /\ IsModeOf(c1_result.mode, vec)

\* C8: challenge_1 called with an empty list returns a Challenge1Result and
\* does not panic.
C8_EmptyInput ==
    (vec = <<>> /\ c1_pc \in {"returned", "panicked"}) => c1_pc = "returned"

\* The words of a string, stated by positions: a word starts at a character
\* that is not white space and follows white space or the start of the
\* string, and runs up to the next white space.
WordStarts(s) ==
    {i \in 1..Len(s) : ~IsWhitespace(s[i]) /\ (i = 1 \/ IsWhitespace(s[i - 1]))}

WordAt(s, i) ==
    LET after == {j \in i..Len(s) : IsWhitespace(s[j])}
        stop == IF after = {} THEN Len(s) + 1
                ELSE CHOOSE j \in after : \A k \in after : j <= k
    IN  SubSeq(s, i, stop - 1)

\* The k-th element of a set of positions.
KthOf(S, k) == CHOOSE i \in S : Cardinality({j \in S : j <= i}) = k

VowelLetters == {"a", "e", "i", "o", "u", "A", "E", "I", "O", "U"}

ConsonantLetters ==
    {"b", "c", "d", "f", "g", "h", "j", "k", "l", "m", "n", "p", "q", "r", "s",
     "t", "v", "w", "x", "y", "z", "B", "C", "D", "F", "G", "H", "J", "K", "L",
     "M", "N", "P", "Q", "R", "S", "T", "V", "W", "X", "Y", "Z"}

\* C9: challenge_2 gives every word that starts with a vowel the suffix
\* "-hay" and leaves the word unchanged, for each white-space-separated word
\* of the input, and joins the transformed words by single spaces in their
\* order.
C9_VowelWords ==
    c2_pc \in {"returned", "panicked"} =>
        /\ c2_pc = "returned"
        /\ LET ins == WordStarts(words)
               outs == WordStarts(c2_result)
           IN  /\ Cardinality(outs) = Cardinality(ins)
               /\ \A k \in 1..Cardinality(ins) :
                     LET w == WordAt(words, KthOf(ins, k)) IN
                     Head(w) \in VowelLetters =>
                        WordAt(c2_result, KthOf(outs, k))
                            = w \o <<"-", "h", "a", "y">>
               /\ \A i \in 1..Len(c2_result) :
                     IsWhitespace(c2_result[i]) =>
                        /\ c2_result[i] = " "
                        /\ 1 < i /\ i < Len(c2_result)
                        /\ ~IsWhitespace(c2_result[i + 1])

\* C10: challenge_2 turns every word that starts with a consonant into the
\* rest of the word, "-", its first character and "ay"; the output has as
\* many words as the input; and challenge_2 returns, without a panic, for
\* every input, the empty and the white-space-only ones included.
C10_ConsonantWords ==
    c2_pc \in {"returned", "panicked"} =>
        /\ c2_pc = "returned"
        /\ LET ins == WordStarts(words)
               outs == WordStarts(c2_result)
           IN  /\ Cardinality(outs) = Cardinality(ins)
               /\ \A k \in 1..Cardinality(ins) :
                     LET w == WordAt(words, KthOf(ins, k)) IN
                     Head(w) \in ConsonantLetters =>
                        WordAt(c2_result, KthOf(outs, k))
                            = Tail(w) \o <<"-", Head(w), "a", "y">>

\* challenge_2 has returned for an input of two words between white space,
\* the second of which starts with a consonant and has more characters.
C10_Witness ==
    /\ c2_pc = "returned"
    /\ words # <<>>
    /\ IsWhitespace(words[1])
    /\ Cardinality(WordStarts(words)) = 2
    /\ LET w == WordAt(words, KthOf(WordStarts(words), 2)) IN
          Head(w) \in ConsonantLetters /\ Len(w) > 1

\* The names the Add commands of the log gave to department d, in order.
RECURSIVE AddedTo(_, _)
AddedTo(log, d) ==
    IF log = <<>> THEN <<>>
    ELSE LET rest == AddedTo(SubSeq(log, 1, Len(log) - 1), d)
             last == log[Len(log)]
         IN  IF last.department = d THEN Append(rest, last.employee) ELSE rest

\* How often x occurs in the sequence v.
Occurrences(v, x) == Cardinality({i \in 1..Len(v) : v[i] = x})

\* C11: after Add commands to valid departments, retrieve_employees(d)
\* returns exactly the names added to d (each as often as it was added, none
\* of another department), in ascending order, when d received an Add; and
\* the stored lists are the added names in the order of the commands, which
\* retrieving does not change.
C11_RetrieveEmployees ==
    /\ \A d \in Departments :
          /\ departments[d].employees = AddedTo(c3_log, d)
          /\ departments[d].present <=> AddedTo(c3_log, d) # <<>>
    /\ retrieved.state = "returned" =>
          LET added == AddedTo(c3_log, retrieved.department)
              got == retrieved.employees
          IN  /\ added # <<>>
              /\ Len(got) = Len(added)
              /\ \A x \in EmployeePool : Occurrences(got, x) = Occurrences(added, x)
              /\ \A i \in 1..(Len(got) - 1) : StringLe(got[i], got[i + 1])

\* C12: Guess::new(value) panics exactly when value < 1 or value > 100 (the
\* last call panicked iff its argument is out of the range); every Guess
\* that exists holds a value in 1..=100 and value() returns a number in
\* that range.
C12_GuessRange ==
    /\ guess_arg.some =>
          (guess_pc = "panicked" <=> (guess_arg.value < 1 \/ guess_arg.value > 100))
    /\ guess_arg.some /\ guess_pc = "ready" =>
          guesses[Len(guesses)].value = guess_arg.value
    /\ \A i \in 1..Len(guesses) : guesses[i].value \in 1..100
    /\ guess_value.some => guess_value.value \in 1..100

\* A Guess of 100 exists and was read, and Guess::new(101) panicked.
C12_Witness ==
    /\ guess_pc = "panicked"
    /\ guess_arg = [some |-> TRUE, value |-> 101]
    /\ \E i \in 1..Len(guesses) : guesses[i].value = 100
    /\ guess_value = [some |-> TRUE, value |-> 100]

\* C13: mix(c1, c2) is None exactly when c1 = c2; two calls with the
\* arguments swapped return the same; Red with Yellow is Orange, Red with
\* Blue is Purple, Yellow with Blue is Green.
C13_Mix ==
    /\ \A i \in 1..Len(mixes) :
          /\ ~mixes[i].result.some <=> mixes[i].c1 = mixes[i].c2
          /\ {mixes[i].c1, mixes[i].c2} = {"Red", "Yellow"} =>
                mixes[i].result = [some |-> TRUE, value |-> "Orange"]
          /\ {mixes[i].c1, mixes[i].c2} = {"Red", "Blue"} =>
                mixes[i].result = [some |-> TRUE, value |-> "Purple"]
          /\ {mixes[i].c1, mixes[i].c2} = {"Yellow", "Blue"} =>
                mixes[i].result = [some |-> TRUE, value |-> "Green"]
    /\ \A i, j \in 1..Len(mixes) :
          mixes[i].c1 = mixes[j].c2 /\ mixes[i].c2 = mixes[j].c1 =>
              mixes[i].result = mixes[j].result

\* Red was mixed with Yellow, Yellow with Red, and Blue with itself.
C13_Witness ==
    /\ \E i \in 1..Len(mixes) : mixes[i].c1 = "Red" /\ mixes[i].c2 = "Yellow"
    /\ \E i \in 1..Len(mixes) : mixes[i].c1 = "Yellow" /\ mixes[i].c2 = "Red"
    /\ \E i \in 1..Len(mixes) : mixes[i].c1 = "Blue" /\ mixes[i].c2 = "Blue"

\* C15: timeout returns Ok(output) when the future takes less time than
\* max_time and Err(max_time) when max_time is less than the future's time;
\* a future complete at its first poll gives Ok whatever max_time is; an Ok
\* carries the future's output and an Err carries max_time.
C15_Timeout ==
    timeout_pc = "returned" =>
        LET Ok == [ok |-> TRUE, output |-> timeout_in.output, duration |-> 0]
            Err == [ok |-> FALSE, output |-> "", duration |-> timeout_in.max_time]
        IN  /\ timeout_result \in {Ok, Err}
            /\ timeout_in.future_time < timeout_in.max_time => timeout_result = Ok
            /\ timeout_in.max_time < timeout_in.future_time => timeout_result = Err
            /\ timeout_in.future_time = 0 => timeout_result = Ok
            /\ timeout_result = Err => clock = timeout_in.max_time

\* A future of 5 with a limit of 2 has returned Err(2).
C15_Witness ==
    /\ timeout_pc = "returned"
    /\ timeout_in.future_time = 5
    /\ timeout_in.max_time = 2
    /\ timeout_result = [ok |-> FALSE, output |-> "", duration |-> 2]

\* The threads between lock() and the end of the closure.
InCriticalSection == {t \in Threads : thread_pc[t] \in {"print", "read", "write", "unlock"}}

\* C16: in sharing_data_across_threads a thread reads and increments the
\* counter only while it holds the mutex, no two threads are in the critical
\* section together, no increment is lost (the counter is the number of
\* threads that have written), and the result printed after the ten joins
\* is 10.
C16_MutexCounter ==
    /\ Cardinality(InCriticalSection) <= 1
    /\ \A t \in InCriticalSection : mutex_holder = t
    /\ counter = Cardinality({t \in Threads : thread_pc[t] \in {"unlock", "done"}})
    /\ share_pc = "done" =>
          /\ share_result = 10
          /\ \A t \in Threads : thread_pc[t] = "done"

\* All ten threads were joined and the result was printed.
C16_Witness ==
    /\ share_pc = "done"
    /\ share_i = NumThreads
    /\ share_result = counter
    /\ \A t \in Threads : thread_pc[t] = "done"

\* The messages of one thread in the output, in the order printed.
RECURSIVE MessagesOf(_, _)
MessagesOf(out, thread) ==
    IF out = <<>> THEN <<>>
    ELSE LET rest == MessagesOf(SubSeq(out, 1, Len(out) - 1), thread)
             last == out[Len(out)]
         IN  IF last[1] = thread THEN Append(rest, last[2]) ELSE rest

\* C17: in join_handles::main, once main has returned the spawned thread has
\* finished and its nine messages 1..9 are all printed (as are main's four);
\* until then each thread's messages appear in its own order, in any
\* interleaving.
C17_JoinWaits ==
    /\ jh_pc = "returned" =>
          /\ jh_thread_pc = "finished"
          /\ MessagesOf(jh_stdout, "spawned") = <<1, 2, 3, 4, 5, 6, 7, 8, 9>>
          /\ MessagesOf(jh_stdout, "main") = <<1, 2, 3, 4>>
    /\ \A k \in 1..Len(MessagesOf(jh_stdout, "spawned")) :
          MessagesOf(jh_stdout, "spawned")[k] = k
    /\ \A k \in 1..Len(MessagesOf(jh_stdout, "main")) :
          MessagesOf(jh_stdout, "main")[k] = k

\* Main has returned after an output in which the spawned thread printed
\* first, main's four messages came in between, and the spawned thread's
\* messages 3 to 9 were printed after main's last message.
C17_Witness ==
    /\ jh_pc = "returned"
    /\ jh_stdout = <<<<"spawned", 1>>, <<"main", 1>>, <<"main", 2>>,
                     <<"spawned", 2>>, <<"main", 3>>, <<"main", 4>>,
                     <<"spawned", 3>>, <<"spawned", 4>>, <<"spawned", 5>>,
                     <<"spawned", 6>>, <<"spawned", 7>>, <<"spawned", 8>>,
                     <<"spawned", 9>>>>

\* C18: in using_threads_to_run_code_simultaneously::main nothing makes
\* main wait for the spawned thread: once main has printed its 49 messages
\* it can return, whatever the spawned thread has printed, and a main that
\* has returned has printed exactly its 49 messages.
C18_MainNeverWaits ==
    /\ ut_pc = "loop" /\ ut_i = 50 => ENABLED UsingThreadsMainReturn
    /\ ut_pc \in {"returned", "exited"} => ut_i - 1 = 49

\* Main printed its 49 messages and ended, and the process with it, while
\* the spawned thread had printed none of its 99 messages.
C18_Witness ==
    /\ ut_pc = "exited"
    /\ ut_i - 1 = 49
    /\ ut_thread_pc = "loop"
    /\ ut_thread_i - 1 = 0

\* What question_1 has printed.
Question1Lines == SelectSeq(quiz_stdout, LAMBDA line : line.by = "question_1")

\* C19: question_1 prints 2 and nothing else: its own n is 1 until its one
\* increment and 2 from then on, whatever the spawned threads do to their
\* copies, and when it prints both spawned threads have finished.
C19_Question1Prints2 ==
    /\ q1_n["main"] = IF q1_pc \in {"spawn", "incr"} THEN 1 ELSE 2
    /\ q1_pc \in {"print", "returned"} =>
          q1_t_pc = "finished" /\ q1_inner_pc = "finished"
    /\ Question1Lines = IF q1_pc = "returned"
                        THEN <<[by |-> "question_1", n |-> 2]>>
                        ELSE <<>>

\* question_1 has printed, after both spawned threads incremented their
\* copies to 2 and 3.
C19_Witness ==
    /\ q1_pc = "returned"
    /\ Question1Lines = <<[by |-> "question_1", n |-> 2]>>
    /\ q1_n = [main |-> 2, t |-> 2, inner |-> 3]

\* C20: message_passing_3 never exits: the join never completes, tx is never
\* dropped and rx.recv() never gives None, so once the four messages are
\* sent and received (and tx_fut is complete) rx_fut is still waiting; the
\* messages are received in the order sent.
C20_NeverExits ==
    /\ mp_pc # "done"
    /\ mp_senders = 1
    /\ rx_pc = "recv"
    /\ \E k \in 0..Len(Vals) : mp_received = SubSeq(Vals, 1, k)
    /\ tx_pc = "done" => mp_received = Vals /\ mp_channel = <<>> /\ rx_waiting

\* All four messages were received and tx_fut completed 2000 ms after the
\* call; 600 ms later the task is still pending.
C20_Witness ==
    /\ mp_received = <<"hi", "from", "the", "future">>
    /\ tx_pc = "done"
    /\ mp_pc = "pending"
    /\ rx_pc = "recv"
    /\ mp_clock = 2600

\* C14: after set_value(v) on a tracker with maximum m the tracker holds v
\* and at most one message was sent; for m > 0 it is the over-quota error
\* when v >= m, the urgent warning when 9m <= 10v and v < m, the 75% warning
\* when 3m <= 4v and 10v < 9m, and none when 4v < 3m; set_value(80) with
\* maximum 100 sends the 75% warning alone.
C14_SetValue ==
    lt_pc = "set" =>
        /\ Len(sent_messages) <= 1
        /\ lt_max # <<>> =>
              sent_messages =
                  IF NatLe(lt_max, lt_value) THEN <<OverQuota>>
                  ELSE IF NatLe(Times(9, lt_max), Times(10, lt_value))
                       THEN <<Over90>>
                  ELSE IF NatLe(Times(3, lt_max), Times(4, lt_value))
                       THEN <<Over75>>
                  ELSE <<>>
        /\ lt_max = NatOf(100) /\ lt_value = NatOf(80) =>
              sent_messages = <<Over75>>

\* C21: message_passing_4 shuts down after the last message: tx is dropped
\* exactly when tx_fut completes, rx.recv() gives None only after the four
\* messages were received in the order sent, the join completes only when
\* both futures have, and it eventually completes.
C21_GracefulShutdown ==
    /\ [](/\ \E k \in 0..Len(Vals) : mp_received = SubSeq(Vals, 1, k)
          /\ (mp_senders = 0) = (tx_pc = "done")
          /\ rx_pc = "done" => mp_senders = 0 /\ mp_received = Vals
          /\ (mp_pc = "done") = (tx_pc = "done" /\ rx_pc = "done"))
    /\ <>(mp_pc = "done")

\* The join completed 2000 ms after the call, after the sleep that follows
\* the last message: all four messages received, tx dropped, None received.
C21_Witness ==
    /\ mp_moved
    /\ mp_pc = "done"
    /\ mp_received = <<"hi", "from", "the", "future">>
    /\ mp_senders = 0
    /\ rx_pc = "done"
    /\ mp_clock = 4 * SleepMillis

\* The output the claim describes: the two tasks' lines alternate, the first
\* task's first, up to the second task's line 4; then the first task's
\* lines 5 to 9.
Zipper ==
    [k \in 1..13 |->
        IF k <= 8
        THEN [task |-> IF k % 2 = 1 THEN "first" ELSE "second", i |-> (k + 1) \div 2]
        ELSE [task |-> "first", i |-> k - 4]]

LeafParent == Weak_upgrade(heap, heap[leaf].parent)

\* C23: a child does not own its parent.  Before branch is created
\* leaf.parent upgrades to None; once it is set and while branch is in
\* scope it upgrades to the branch node, leaf has strong count 2 and branch
\* strong count 1 and weak count 1; after the scope it upgrades to None
\* again, the branch node is dropped and leaf is alive with strong count 1
\* and weak count 0.  The lines printed are those counts.
C23_Tree ==
    /\ tree_pc \in {"leaf_created", "scope"} =>
          /\ LeafParent = 0
          /\ Rc_strong_count(heap, leaf) = 1
          /\ Rc_weak_count(heap, leaf) = 0
    /\ tree_pc \in {"parent_set", "branch_printed", "scope_end"} =>
          /\ branch # 0 /\ LeafParent = branch
          /\ heap[branch].state = "live" /\ heap[branch].value = 5
          /\ Rc_strong_count(heap, leaf) = 2
          /\ Rc_strong_count(heap, branch) = 1
          /\ Rc_weak_count(heap, branch) = 1
    /\ tree_pc \in {"after_scope", "parent_printed", "main_end"} =>
          /\ LeafParent = 0
          /\ heap[leaf].parent # 0
          /\ heap[heap[leaf].parent].state = "dropped"
          /\ Rc_strong_count(heap, heap[leaf].parent) = 0
          /\ heap[leaf].state = "live" /\ heap[leaf].value = 3
          /\ Rc_strong_count(heap, leaf) = 1
          /\ Rc_weak_count(heap, leaf) = 0
    /\ tree_pc = "returned" =>
          tree_stdout = <<[name |-> "leaf", strong |-> 1, weak |-> 0],
                          [name |-> "branch", strong |-> 1, weak |-> 1],
                          [name |-> "leaf", strong |-> 2, weak |-> 0],
                          [name |-> "leaf parent", parent |-> 0],
                          [name |-> "leaf", strong |-> 1, weak |-> 0]>>

\* After the scope main has printed "leaf parent = None" while leaf.parent
\* still points to the allocation of the dropped branch.
C23_Witness ==
    /\ tree_pc = "parent_printed"
    /\ tree_stdout[4] = [name |-> "leaf parent", parent |-> 0]
    /\ heap[leaf].parent # 0
    /\ heap[heap[leaf].parent].state = "dropped"
    /\ heap[heap[leaf].parent].weak = 1

\* C24: search_v2 returns what search returns: whichever of the two was
\* called, the result is the other one's result for the same query and
\* contents, the same lines in the same order.
C24_SearchV2SameAsSearch ==
    /\ search_fn = "search_v2" => results = search(query, contents)
    /\ search_fn = "search" => results = search_v2(query, contents)

\* search_v2 returned two lines of a contents of three lines.
C24_Witness ==
    /\ search_fn = "search_v2"
    /\ Len(results) = 2
    /\ Len(Lines(contents)) = 3

\* The messages of producer p among those received, in the order received.
ReceivedFrom(p) ==
    SelectSeq(cl_received, LAMBDA m : \E i \in DOMAIN ProducerVals[p] : m = ProducerVals[p][i])

\* C25: under every interleaving the messages received from each producer
\* are the first messages it sent, once each and in its order; every
\* message sent is received or in the channel; the receive loop ends only
\* when both producers have finished, their Senders are dropped and all
\* eight messages were received; and it does end.
C25_MultipleProducers ==
    /\ [](/\ \A p \in Producers :
                \E k \in 0..Len(ProducerVals[p]) :
                    ReceivedFrom(p) = SubSeq(ProducerVals[p], 1, k)
          /\ Len(cl_received) = Len(ReceivedFrom(1)) + Len(ReceivedFrom(2))
          /\ cl_pc \in {"recv", "returned"} =>
                Len(cl_received) + Len(cl_channel) =
                    (producer_idx[1] - (IF producer_pc[1] = "send" THEN 1 ELSE 0))
                    + (producer_idx[2] - (IF producer_pc[2] = "send" THEN 1 ELSE 0))
          /\ cl_pc = "returned" =>
                /\ \A p \in Producers : producer_pc[p] = "finished"
                /\ cl_senders = 0
                /\ Len(cl_received) = 8
                /\ \A p \in Producers : ReceivedFrom(p) = ProducerVals[p])
    /\ <>(cl_pc = "returned")

\* The loop ended after the two producers' messages arrived interleaved,
\* the second producer's first.
C25_Witness ==
    /\ cl_pc = "returned"
    /\ cl_received = <<"more", "hi", "from", "messages", "for", "the", "thread", "you">>

====
